---------------------------- MODULE Spec2Model ----------------------------
(***************************************************************************)
(* A model of the bonfire server: the text channel worker with its action  *)
(* queue, keyspace, search index and event broadcast                       *)
(* (src/server/channel/text), and the gateway connection handler with its  *)
(* two pumps and the client session table (src/http/gateway.rs,            *)
(* src/server/client).                                                     *)
(***************************************************************************)
EXTENDS Integers, Sequences, FiniteSets, TLC

(***************************************************************************)
(* Bounds of the model.                                                    *)
(***************************************************************************)
\* Number of actions the producers submit in one run.
MaxActions == 3
\* Capacity of the action queue.  The source passes 25 to
\* tachyonix::channel (text/mod.rs:140); the model is checked for small
\* capacities so that a full queue is reached.
QueueCapacity == 1
\* Capacity asked of the event broadcast.  The source passes 25 to
\* broadcast::channel (text/mod.rs:142).
EventCapacity == 2
\* Number of store inserts and index adds that fail in one run.
MaxFailures == 1
\* Number of frames a client sends on one connection.
MaxFrames == 3
\* Capacity of a session's ingestion channel for client events.
IngestCapacity == 1
\* The events one connection's task_send writes to its socket.
MaxSent == 2
\* The calls of Server::create_text_channel.
MaxChannels == 3
\* create_session calls made in one run.
MaxSessions == 2
\* The last millisecond the clock of the identifier generators reaches.
MaxClock == 2
\* The longest payload of a message part between its prefix and `>`.
MaxPayload == 2
\* The receive errors in a row that are counted for one outbound pump.
MaxSpins == 2
\* The requests one handler serves.
MaxRequests == 2

\* The concurrent producers holding a clone of the message sender.
Producers == {1, 2}
\* The receivers handed out by subscribe().
Subscribers == {"s1", "s2"}
\* The millisecond timestamps messages carry (equal and decreasing ones occur).
Timestamps == {1, 2}
\* Millisecond timestamps on both sides of a byte of the store key.
KeyTimestamps == {255, 256, 65536, 2147483647}
\* The authors of messages.
Authors == {42}
\* The gateway connections.
Connections == {1}
\* The connection handlers that use the session registry at the same time.
Handlers == {1, 2}

VARIABLES
    message_queue,   \* tachyonix channel: actions accepted and not yet received
    pending_send,    \* per producer: the action of a send() suspended on a full queue
    submitted,       \* number of actions handed to send() so far
    worker_pc,       \* position of channel_worker
    action,          \* the action channel_worker is handling
    keyspace,        \* fjall keyspace of the channel: key -> message body
    index,           \* documents added to the tantivy index writer, in order
    events,          \* every event sent on the broadcast channel, in order
    receivers,       \* per subscriber: the state of its broadcast receiver
    history,         \* per received action: what the worker did with it
    conn,            \* per connection: the state of handle_socket and its two tasks
    sessions,        \* ClientService.sessions: the ids in the session table
    session_state,   \* the Session objects created so far, by id
    ingest,          \* per connection: its session's client event channel
    text_channels,   \* Server.text_channels: channel id -> label
    id_generator,    \* Server.id_generator: the identifiers generated so far
    opened,          \* the channel ids whose keyspace was opened or created
    actors,          \* the channel ids for which a channel_worker was spawned
    workers,         \* the spawned channel_workers, each with the name of its
                     \* keyspace and the directory of its index writer
    result,          \* what the last create_text_channel call returned
    listing,         \* what the last text_channels() call returned
    clock,           \* milliseconds since the epoch of the identifier generators
    generators,      \* the id_generator of Server and the one of ClientService
    channel_ids,     \* the identifiers generated for channels
    session_ids,     \* the identifiers create_session returned, in order
    client_sessions, \* ClientService.sessions, entry by entry
    service_lock,    \* the RwLock around the ClientService: writer and readers
    handler,         \* per handler: its position in a registry operation
    live,            \* the sessions created and not closed by returned calls
    part,            \* the message part handed to decode_message_part
    block,           \* the MessageBlock decode_message_part returned for it
    origin,          \* the mention part was formatted from, if it was
    rwlock,          \* per RwLock of the registries: its writer and its readers
    holder           \* per handler: the HTTP handler it runs and its position

channel_vars == <<message_queue, pending_send, submitted, worker_pc, action,
                  keyspace, index, events, receivers, history>>

gateway_vars == <<conn, sessions, session_state, ingest>>

server_vars == <<text_channels, id_generator, opened, actors, workers, result, listing>>

registry_vars == <<clock, generators, channel_ids, session_ids, client_sessions,
                   service_lock, handler, live>>

codec_vars == <<part, block, origin>>

lock_vars == <<rwlock, holder>>

vars == <<channel_vars, gateway_vars, server_vars, registry_vars, codec_vars, lock_vars>>

(***************************************************************************)
(* Data of the text channel.                                               *)
(***************************************************************************)
NoMessage == [author |-> 0, timestamp_ms |-> 0, content |-> 0]

\* TextChannelMessage: author, millisecond timestamp, body.
TextChannelMessage(author, ts, content) ==
    [author |-> author, timestamp_ms |-> ts, content |-> content]

\* TextChannelAction::MessageCreated(msg)
MessageCreated(msg) == [kind |-> "MessageCreated", msg |-> msg]
\* TextChannelAction::MessageEdited()
MessageEdited == [kind |-> "MessageEdited", msg |-> NoMessage]
NoAction == [kind |-> "None", msg |-> NoMessage]

\* TextChannelEvent::NewMessage(msg)
NewMessage(msg) == [kind |-> "NewMessage", msg |-> msg]

\* n >> (8 * k)
RECURSIVE ShiftRightBytes(_, _)
ShiftRightBytes(n, k) == IF k = 0 \/ n = 0 THEN n ELSE ShiftRightBytes(n \div 256, k - 1)

\* u64::to_le_bytes: the eight bytes of n, least significant first.
to_le_bytes(n) == [i \in 1..8 |-> ShiftRightBytes(n, i - 1) % 256]

\* u64::to_be_bytes: the eight bytes of n, most significant first.
to_be_bytes(n) == [i \in 1..8 |-> ShiftRightBytes(n, 8 - i) % 256]

\* Lexicographic order of two byte strings (the key order of the keyspace).
RECURSIVE KeyLess(_, _)
KeyLess(a, b) ==
    IF a = <<>> \/ b = <<>> THEN a = <<>> /\ b # <<>>
    ELSE IF Head(a) # Head(b) THEN Head(a) < Head(b)
    ELSE KeyLess(Tail(a), Tail(b))

\* The keyspace read as an ordered map: its values in key order.
RECURSIVE ScanFrom(_, _)
ScanFrom(ks, keys) ==
    IF keys = {} THEN <<>>
    ELSE LET k == CHOOSE x \in keys : \A y \in keys \ {x} : KeyLess(x, y)
         IN  <<ks[k]>> \o ScanFrom(ks, keys \ {k})
Scan(ks) == ScanFrom(ks, DOMAIN ks)

EmptyKeyspace == [k \in {} |-> 0]

\* Keyspace::insert(key, value): an existing key is overwritten.
keyspace_insert(ks, key, value) ==
    [k \in (DOMAIN ks) \cup {key} |-> IF k = key THEN value ELSE ks[k]]

\* The search document the worker builds from a message (worker.rs:42-48):
\* the millisecond timestamp is handed to DateTime::from_timestamp_secs as is.
document(msg) ==
    [timestamp_secs |-> msg.timestamp_ms, content |-> msg.content, author |-> msg.author]

\* usize::next_power_of_two, which tokio applies to the capacity asked of
\* broadcast::channel.
RECURSIVE next_power_of_two_from(_, _)
next_power_of_two_from(n, p) == IF p >= n THEN p ELSE next_power_of_two_from(n, 2 * p)
next_power_of_two(n) == next_power_of_two_from(n, 1)

\* Number of events the broadcast channel retains for its receivers.
BufferLen == next_power_of_two(EventCapacity)

\* A receiver that subscribe() has not handed out yet.
NoReceiver ==
    [subscribed |-> FALSE, next |-> 0, at |-> 0, early |-> FALSE, lagged |-> FALSE,
     got |-> <<>>]

\* What the worker has done so far with a received action: stage counts the
\* steps taken (1 insert, 2 add_document, 3 send), stored and indexed say
\* whether the insert and the add_document succeeded.
Received(a) == [action |-> a, stage |-> 0, stored |-> FALSE, indexed |-> FALSE]

Last(s) == s[Len(s)]
SetLast(s, e) == [s EXCEPT ![Len(s)] = e]

\* Number of failed inserts and failed index adds so far.
RECURSIVE Failures(_)
Failures(h) ==
    IF h = <<>> THEN 0
    ELSE Failures(Tail(h))
         + (IF Head(h).stage >= 1 /\ ~Head(h).stored THEN 1 ELSE 0)
         + (IF Head(h).stage >= 2 /\ ~Head(h).indexed THEN 1 ELSE 0)

\* The outcomes a store or index write can have now.
Outcomes == IF Failures(history) < MaxFailures THEN {TRUE, FALSE} ELSE {TRUE}

Stopped == {"panicked", "exit"}

\* The receiving half of the action queue lives as long as the worker task.
ReceiverOpen == worker_pc \notin Stopped

ChannelInit ==
    /\ message_queue = <<>>
    /\ pending_send = [p \in Producers |-> NoAction]
    /\ submitted = 0
    /\ worker_pc = "recv"
    /\ action = NoAction
    /\ keyspace = EmptyKeyspace
    /\ index = <<>>
    /\ events = <<>>
    /\ receivers = [s \in Subscribers |-> NoReceiver]
    /\ history = <<>>

(***************************************************************************)
(* Producers: tachyonix::Sender::send(action).await                        *)
(***************************************************************************)
\* send() as a queue without a capacity would do it: the action is always
\* enqueued.
send_unbounded(p, a) ==
    /\ pending_send[p] = NoAction
    /\ submitted < MaxActions
    /\ submitted' = submitted + 1
    /\ IF ~ReceiverOpen
       THEN UNCHANGED <<message_queue, pending_send>>
       ELSE /\ message_queue' = Append(message_queue, a)
            /\ UNCHANGED pending_send
    /\ UNCHANGED <<worker_pc, action, keyspace, index, events, receivers, history>>

\* A producer hands an action to send(): it is enqueued when the queue has
\* room, the producer is suspended when the queue is full, and the send
\* fails when the receiver is gone.
send(p, a) ==
    /\ pending_send[p] = NoAction
    /\ submitted < MaxActions
    /\ submitted' = submitted + 1
    /\ IF ~ReceiverOpen
       THEN UNCHANGED <<message_queue, pending_send>>
       ELSE IF Len(message_queue) < QueueCapacity
            THEN /\ message_queue' = Append(message_queue, a)
                 /\ UNCHANGED pending_send
            ELSE /\ pending_send' = [pending_send EXCEPT ![p] = a]
                 /\ UNCHANGED message_queue
    /\ UNCHANGED <<worker_pc, action, keyspace, index, events, receivers, history>>

\* A suspended send() completes once the worker has made room.
send_resume(p) ==
    /\ pending_send[p] # NoAction
    /\ ReceiverOpen
    /\ Len(message_queue) < QueueCapacity
    /\ message_queue' = Append(message_queue, pending_send[p])
    /\ pending_send' = [pending_send EXCEPT ![p] = NoAction]
    /\ UNCHANGED <<submitted, worker_pc, action, keyspace, index, events, receivers,
                   history>>

\* A suspended send() fails once the receiver is gone.
send_closed(p) ==
    /\ pending_send[p] # NoAction
    /\ ~ReceiverOpen
    /\ pending_send' = [pending_send EXCEPT ![p] = NoAction]
    /\ UNCHANGED <<message_queue, submitted, worker_pc, action, keyspace, index, events,
                   receivers, history>>

SubmitCreated ==
    \E p \in Producers, author \in Authors, ts \in Timestamps :
        send(p, MessageCreated(TextChannelMessage(author, ts, submitted + 1)))

SubmitEdited == \E p \in Producers : send(p, MessageEdited)

SendResume == \E p \in Producers : send_resume(p)

SendClosed == \E p \in Producers : send_closed(p)

(***************************************************************************)
(* channel_worker (worker.rs:21-63)                                        *)
(***************************************************************************)
\* The receive as a worker that handles an action in a spawned sub-task
\* would do it: the next action is taken while the last is still in hand.
channel_worker_recv_eager ==
    /\ worker_pc \in {"recv", "index", "send"}
    /\ message_queue # <<>>
    /\ action' = Head(message_queue)
    /\ message_queue' = Tail(message_queue)
    /\ history' = Append(history, Received(Head(message_queue)))
    /\ worker_pc' = IF Head(message_queue).kind = "MessageCreated" THEN "insert"
                    ELSE "edited"
    /\ UNCHANGED <<pending_send, submitted, keyspace, index, events, receivers>>

\* The receive as a worker that is started again after a panic would do it.
channel_worker_recv_restarted ==
    /\ worker_pc \in {"recv", "panicked"}
    /\ message_queue # <<>>
    /\ action' = Head(message_queue)
    /\ message_queue' = Tail(message_queue)
    /\ history' = Append(history, Received(Head(message_queue)))
    /\ worker_pc' = IF Head(message_queue).kind = "MessageCreated" THEN "insert"
                    ELSE "edited"
    /\ UNCHANGED <<pending_send, submitted, keyspace, index, events, receivers>>

\* message_receiver.recv().await, then the match on the action.
channel_worker_recv ==
    /\ worker_pc = "recv"
    /\ message_queue # <<>>
    /\ action' = Head(message_queue)
    /\ message_queue' = Tail(message_queue)
    /\ history' = Append(history, Received(Head(message_queue)))
    /\ worker_pc' = IF Head(message_queue).kind = "MessageCreated" THEN "insert"
                    ELSE "edited"
    /\ UNCHANGED <<pending_send, submitted, keyspace, index, events, receivers>>

\* keyspace.insert(timestamp_ms.to_be_bytes(), body): an error is logged and
\* the worker goes on.
channel_worker_insert ==
    /\ worker_pc = "insert"
    /\ \E ok \in Outcomes :
        /\ keyspace' = IF ok
                       THEN keyspace_insert(keyspace, to_be_bytes(action.msg.timestamp_ms),
                                            action.msg.content)
                       ELSE keyspace
        /\ history' = SetLast(history, [Last(history) EXCEPT !.stage = 1, !.stored = ok])
    /\ worker_pc' = "index"
    /\ UNCHANGED <<message_queue, pending_send, submitted, action, index, events, receivers>>

\* index_writer.add_document(document): an error is logged and the worker
\* goes on.
channel_worker_add_document ==
    /\ worker_pc = "index"
    /\ \E ok \in Outcomes :
        /\ index' = IF ok THEN Append(index, document(action.msg)) ELSE index
        /\ history' = SetLast(history, [Last(history) EXCEPT !.stage = 2, !.indexed = ok])
    /\ worker_pc' = "send"
    /\ UNCHANGED <<message_queue, pending_send, submitted, action, keyspace, events,
                   receivers>>

\* The send as a worker that drops an action whose write failed would do
\* it: no event for a message that was not stored and indexed.
channel_worker_send_dropping ==
    /\ worker_pc = "send"
    /\ events' = IF Last(history).stored /\ Last(history).indexed
                 THEN Append(events, NewMessage(action.msg))
                 ELSE events
    /\ history' = SetLast(history, [Last(history) EXCEPT !.stage = 3])
    /\ worker_pc' = "recv"
    /\ action' = NoAction
    /\ UNCHANGED <<message_queue, pending_send, submitted, keyspace, index, receivers>>

\* A send whose event is built from the indexed document: the timestamp in
\* seconds.
channel_worker_send_document ==
    /\ worker_pc = "send"
    /\ events' = Append(events,
                    NewMessage(TextChannelMessage(action.msg.author,
                                                  action.msg.timestamp_ms \div 1000,
                                                  action.msg.content)))
    /\ history' = SetLast(history, [Last(history) EXCEPT !.stage = 3])
    /\ worker_pc' = "recv"
    /\ action' = NoAction
    /\ UNCHANGED <<message_queue, pending_send, submitted, keyspace, index, receivers>>

\* The send as a channel that waits for its slowest receiver would do it:
\* no event is overwritten before every subscriber has read it.
channel_worker_send_blocking ==
    /\ worker_pc = "send"
    /\ \A s \in Subscribers :
          receivers[s].subscribed => Len(events) - receivers[s].next < BufferLen
    /\ events' = Append(events, NewMessage(action.msg))
    /\ history' = SetLast(history, [Last(history) EXCEPT !.stage = 3])
    /\ worker_pc' = "recv"
    /\ action' = NoAction
    /\ UNCHANGED <<message_queue, pending_send, submitted, keyspace, index, receivers>>

\* event_notifier.send(NewMessage(msg)).  The TextChannel keeps a receiver of
\* its own (event_receiver), so the send never fails for want of receivers.
channel_worker_send ==
    /\ worker_pc = "send"
    /\ events' = Append(events, NewMessage(action.msg))
    /\ history' = SetLast(history, [Last(history) EXCEPT !.stage = 3])
    /\ worker_pc' = "recv"
    /\ action' = NoAction
    /\ UNCHANGED <<message_queue, pending_send, submitted, keyspace, index, receivers>>

\* TextChannelAction::MessageEdited() => todo!(): the worker task panics.
channel_worker_edited ==
    /\ worker_pc = "edited"
    /\ worker_pc' = "panicked"
    /\ UNCHANGED <<message_queue, pending_send, submitted, action, keyspace, index, events,
                   receivers, history>>

(***************************************************************************)
(* Subscribers: TextChannel::subscribe and broadcast::Receiver::recv       *)
(***************************************************************************)
\* A subscription that replays the retained events (a clone of a receiver
\* that never read).
resubscribe_replay(tail) == 0

\* event_receiver.resubscribe(): the new receiver starts at the current tail.
resubscribe(tail) == tail

subscribe(s) ==
    /\ ~receivers[s].subscribed
    /\ receivers' = [receivers EXCEPT ![s] =
                        [subscribed |-> TRUE, next |-> resubscribe(Len(events)),
                         at |-> Len(events), early |-> submitted = 0,
                         lagged |-> FALSE, got |-> <<>>]]
    /\ UNCHANGED <<message_queue, pending_send, submitted, worker_pc, action, keyspace,
                   index, events, history>>

\* The oldest position the broadcast channel still retains.
Oldest == IF Len(events) > BufferLen THEN Len(events) - BufferLen ELSE 0

\* recv().await on a receiver: Err(Lagged) when the next event was
\* overwritten (the receiver then continues at the oldest retained event),
\* otherwise the next event; it waits when there is none.
recv(s) ==
    /\ receivers[s].subscribed
    /\ receivers[s].next < Len(events)
    /\ receivers' = [receivers EXCEPT ![s] =
                        IF @.next < Oldest
                        THEN [@ EXCEPT !.next = Oldest, !.lagged = TRUE]
                        ELSE [@ EXCEPT !.next = @ + 1, !.got = Append(@, receivers[s].next + 1)]]
    /\ UNCHANGED <<message_queue, pending_send, submitted, worker_pc, action, keyspace,
                   index, events, history>>

Subscribe == \E s \in Subscribers : subscribe(s)

Recv == \E s \in Subscribers : recv(s)

(***************************************************************************)
(* The gateway: ws_handler, handle_socket and its two tasks                *)
(* (src/http/gateway.rs), the client sessions (src/server/client/mod.rs).  *)
(***************************************************************************)
\* The version query parameter of a gateway request.
Versions == {"absent", "v0", "v9"}
\* The encoding query parameter of a gateway request.
EncodingParams == {"absent", "Protobuf", "Json"}

\* What the next read of the websocket yields: a text frame (an identify or
\* client event document, a document of another shape, or no JSON at all), a
\* binary frame (decodable or not), a control frame, the end of the stream
\* or a receive error.
Frames ==
    {"TextValid", "TextWrongSchema", "TextInvalidJson", "BinaryValid", "BinaryInvalid",
     "Ping", "Pong", "Close", "StreamEnd", "RecvError"}

\* The values Utc::now().timestamp() returns.
Clock == {1700000000}

NoSession == 0

\* The protocol versions the server implements (proto/mod.rs:7, pub mod v0).
SupportedVersions == {"v0"}

\* A connection before its request is handled. version and last_frame keep
\* the request's version parameter and the last frame the server read;
\* handshake_sent, identified and accepted record that the handshake was
\* written, an identify payload was decoded and its token was accepted; sent
\* counts the events written to the socket; created holds the client events
\* that were forwarded to a channel as Created actions; encoding_param is
\* the request's encoding parameter, wire the types of the frames written to
\* the socket, recv_errors the receive errors task_send has met in a row
\* without suspending, send_failed that encoding or sending an event failed.
NewConnection ==
    [pc |-> "request", encoding |-> "none", session |-> NoSession,
     send_task |-> "none", receive_task |-> "none", frames |-> 0,
     version |-> "none", last_frame |-> "none", handshake_sent |-> FALSE,
     identified |-> FALSE, accepted |-> FALSE, sent |-> 0, created |-> {},
     encoding_param |-> "none", wire |-> {}, recv_errors |-> 0,
     send_failed |-> FALSE]

\* A task that has returned or panicked: its JoinHandle is ready.
Finished == {"done", "panicked"}
\* A task that will not run again.
Terminated == {"done", "panicked", "aborted"}
\* A task inside its loop.
Running == {"wait_event", "recv", "send_ingest"}

GatewayInit ==
    /\ conn = [c \in Connections |-> NewConnection]
    /\ sessions = {}
    /\ session_state = [id \in {} |-> 0]
    /\ ingest = [c \in Connections |-> <<>>]

\* ws_handler (gateway.rs:62-98): the version check, the default encoding,
\* the upgrade.
ws_handler(c, version, encoding) ==
    /\ conn[c].pc = "request"
    /\ conn' = [conn EXCEPT ![c] =
                  IF version = "v0"
                  THEN [@ EXCEPT !.pc = "rejected", !.version = version,
                                 !.encoding_param = encoding]
                  ELSE [@ EXCEPT !.pc = "handshake", !.version = version,
                                 !.encoding_param = encoding,
                                 !.encoding = IF encoding = "absent" THEN "Json"
                                              ELSE encoding]]
    /\ UNCHANGED <<sessions, session_state, ingest>>

\* The frame type that carries a payload of an encoding: ws::Message::Binary
\* for Protobuf, ws::Message::Text for Json (gateway.rs:236-249, 338-356).
ws_Message(encoding) == IF encoding = "Protobuf" THEN "Binary" ELSE "Text"

\* A handshake whose send error is ignored: the handler goes on to identify.
send_handshake_message_ignored(c) ==
    /\ conn[c].pc = "handshake"
    /\ \E ok \in BOOLEAN :
        conn' = [conn EXCEPT ![c] = [@ EXCEPT !.pc = "identify", !.handshake_sent = ok]]
    /\ UNCHANGED <<sessions, session_state, ingest>>

\* send_handshake_message (gateway.rs:229-257): socket.send(..).await.unwrap();
\* a failed send panics the handler task, which ends the connection.
send_handshake_message(c) ==
    /\ conn[c].pc = "handshake"
    /\ \E ok \in BOOLEAN :
        conn' = [conn EXCEPT ![c] =
                    [@ EXCEPT !.pc = IF ok THEN "identify" ELSE "closed",
                              !.handshake_sent = ok,
                              !.wire = IF ok THEN @ \cup {ws_Message(conn[c].encoding)}
                                       ELSE @]]
    /\ UNCHANGED <<sessions, session_state, ingest>>

\* A receive_identity_message that decodes by the negotiated encoding: a
\* frame of the other type is skipped.
receive_identity_message_negotiated(c, frame) ==
    /\ conn[c].pc = "identify"
    /\ conn[c].frames < MaxFrames
    /\ LET valid == \/ frame = "TextValid" /\ conn[c].encoding = "Json"
                    \/ frame = "BinaryValid" /\ conn[c].encoding = "Protobuf"
       IN  conn' = [conn EXCEPT ![c] =
                  [@ EXCEPT !.frames = @ + 1,
                            !.last_frame = frame,
                            !.identified = valid,
                            !.pc = CASE frame \in {"StreamEnd", "RecvError"} -> "closed"
                                     [] frame = "TextInvalidJson" -> "closed"
                                     [] valid -> "auth"
                                     [] OTHER -> "identify"]]
    /\ UNCHANGED <<sessions, session_state, ingest>>

\* receive_identity_message (gateway.rs:262-310), one turn of its loop.
receive_identity_message(c, frame) ==
    /\ conn[c].pc = "identify"
    /\ conn[c].frames < MaxFrames
    /\ conn' = [conn EXCEPT ![c] =
                  [@ EXCEPT !.frames = @ + 1,
                            !.last_frame = frame,
                            !.identified = frame \in {"TextValid", "BinaryValid"},
                            !.pc = CASE frame \in {"StreamEnd", "RecvError"} -> "closed"
                                     [] frame = "TextInvalidJson" -> "closed"
                                     [] frame \in {"TextValid", "BinaryValid"} -> "auth"
                                     [] OTHER -> "identify"]]
    /\ UNCHANGED <<sessions, session_state, ingest>>

\* The answers of AuthService::validate_token.
validate_token_results == {"None", "Some"}

\* A token check whose answer is ignored.
authenticate_unchecked(c) ==
    /\ conn[c].pc = "auth"
    /\ \E user_id \in validate_token_results :
        conn' = [conn EXCEPT ![c] =
                    [@ EXCEPT !.pc = "create_session",
                              !.accepted = (user_id = "Some")]]
    /\ UNCHANGED <<sessions, session_state, ingest>>

\* handle_socket (gateway.rs:141-152): the token check.
authenticate(c) ==
    /\ conn[c].pc = "auth"
    /\ \E user_id \in validate_token_results :
        conn' = [conn EXCEPT ![c] =
                    [@ EXCEPT !.pc = IF user_id = "None" THEN "closed"
                                     ELSE "create_session",
                              !.accepted = (user_id = "Some")]]
    /\ UNCHANGED <<sessions, session_state, ingest>>

\* Session::new (client/mod.rs:64-71)
Session(id) == [id |-> id, state |-> "Connected", last_contact_s |-> 0]

\* The identifier id_generator.generate() returns for the next session.
generate_session_id == Cardinality(DOMAIN session_state) + 1

\* ClientService::create_session (client/mod.rs:106-126) on the table.
create_session(table, id) == table \cup {id}

\* ClientService::close_session (client/mod.rs:129-134) on the table.
close_session(table, id) == table \ {id}

\* handle_socket (gateway.rs:160-197): the session is created, the socket is
\* split and the two tasks are spawned.
handle_socket_create_session(c) ==
    /\ conn[c].pc = "create_session"
    /\ LET id == generate_session_id
       IN  /\ sessions' = create_session(sessions, id)
           /\ session_state' = [i \in (DOMAIN session_state) \cup {id} |->
                                   IF i = id THEN Session(id) ELSE session_state[i]]
           /\ conn' = [conn EXCEPT ![c] =
                          [@ EXCEPT !.pc = "streaming", !.session = id,
                                    !.send_task = "wait_event", !.receive_task = "recv"]]
    /\ UNCHANGED ingest

\* A handler that waits for both tasks (join! in place of select!).
handle_socket_join(c) ==
    /\ conn[c].pc = "streaming"
    /\ conn[c].send_task \in Finished /\ conn[c].receive_task \in Finished
    /\ conn' = [conn EXCEPT ![c].pc = "closed"]
    /\ UNCHANGED <<sessions, session_state, ingest>>

\* handle_socket (gateway.rs:199-224): select! on the two tasks; whichever
\* has finished, abort() is called on the other, and the handler returns.
\* JoinHandle::abort only schedules the cancellation: a task that is idle at
\* an .await is shut down without running again, a task that a worker
\* thread is polling (#[tokio::main], bin/bonfire/main.rs:50, is the
\* multi-thread runtime) runs on until it next yields.
handle_socket_select(c) ==
    /\ conn[c].pc = "streaming"
    /\ conn[c].send_task \in Finished \/ conn[c].receive_task \in Finished
    /\ \E polled \in BOOLEAN :
        conn' = [conn EXCEPT ![c] =
                  [@ EXCEPT !.pc = "closed",
                            !.send_task = IF @ \in Finished \/ polled THEN @ ELSE "aborted",
                            !.receive_task = IF @ \in Finished \/ polled THEN @ ELSE "aborted"]]
    /\ UNCHANGED <<sessions, session_state, ingest>>

\* The cancellation scheduled by abort() (gateway.rs:206, 213) takes effect:
\* the task yields and is dropped.
abort(c) ==
    /\ conn[c].pc = "closed"
    /\ conn[c].send_task \in Running \/ conn[c].receive_task \in Running
    /\ conn' = [conn EXCEPT ![c] =
                  [@ EXCEPT !.send_task = IF @ \in Running THEN "aborted" ELSE @,
                            !.receive_task = IF @ \in Running THEN "aborted" ELSE @]]
    /\ UNCHANGED <<sessions, session_state, ingest>>

\* A task_send that writes every event as a JSON text frame.
task_send_event_text(c, outcome) ==
    /\ conn[c].send_task = "wait_event"
    /\ outcome = "sent" => conn[c].sent < MaxSent
    /\ conn' = [conn EXCEPT ![c] =
                  [@ EXCEPT !.sent = IF outcome = "sent" THEN @ + 1 ELSE @,
                            !.recv_errors = 0,
                            !.wire = IF outcome = "sent" THEN @ \cup {"Text"} ELSE @,
                            !.send_failed = outcome # "sent",
                            !.send_task =
                                CASE outcome = "sent" -> "wait_event"
                                  [] outcome = "encode_failed" ->
                                        IF conn[c].encoding = "Protobuf" THEN "done"
                                        ELSE "panicked"
                                  [] outcome = "send_failed" -> "panicked"]]
    /\ UNCHANGED <<sessions, session_state, ingest>>

\* A task_send that logs a failed encode or send and goes on with the next
\* event.
task_send_event_skipping(c, outcome) ==
    /\ conn[c].send_task = "wait_event"
    /\ outcome = "sent" => conn[c].sent < MaxSent
    /\ conn' = [conn EXCEPT ![c] =
                  [@ EXCEPT !.sent = IF outcome = "sent" THEN @ + 1 ELSE @,
                            !.recv_errors = 0,
                            !.wire = IF outcome = "sent"
                                     THEN @ \cup {ws_Message(conn[c].encoding)} ELSE @,
                            !.send_failed = @ \/ outcome # "sent"]]
    /\ UNCHANGED <<sessions, session_state, ingest>>

\* task_send (gateway.rs:313-365), one turn of its loop on an event of the
\* session's subscription: the event is sent, or its protobuf encoding fails
\* and the loop breaks, or its JSON encoding or the send fails and unwrap()
\* panics.
task_send_event(c, outcome) ==
    /\ conn[c].send_task = "wait_event"
    /\ outcome = "sent" => conn[c].sent < MaxSent
    /\ conn' = [conn EXCEPT ![c] =
                  [@ EXCEPT !.sent = IF outcome = "sent" THEN @ + 1 ELSE @,
                            !.recv_errors = 0,
                            !.wire = IF outcome = "sent"
                                     THEN @ \cup {ws_Message(conn[c].encoding)} ELSE @,
                            !.send_failed = outcome # "sent",
                            !.send_task =
                                CASE outcome = "sent" -> "wait_event"
                                  [] outcome = "encode_failed" ->
                                        IF conn[c].encoding = "Protobuf" THEN "done"
                                        ELSE "panicked"
                                  [] outcome = "send_failed" -> "panicked"]]
    /\ UNCHANGED <<sessions, session_state, ingest>>

\* A contacted() that leaves the timestamp alone.
contacted_stale(session, now) == session

\* Session::contacted (client/mod.rs:79-83)
contacted(session, now) == [session EXCEPT !.last_contact_s = now]

\* task_receive (gateway.rs:368-457), one turn of its loop: the next frame
\* is read and, when it decodes to a client event, the event is handed to
\* sender.send(event).await, which suspends the task while the channel is
\* full.
task_receive_frame(c, frame) ==
    /\ conn[c].receive_task = "recv"
    /\ conn[c].frames < MaxFrames
    /\ LET valid == frame \in {"TextValid", "BinaryValid"}
           full == Len(ingest[c]) >= IngestCapacity
       IN  /\ conn' = [conn EXCEPT ![c] =
                  [@ EXCEPT !.frames = @ + 1,
                            !.last_frame = frame,
                            !.receive_task =
                                CASE frame \in {"StreamEnd", "Ping"} -> "done"
                                  [] frame = "TextInvalidJson" -> "panicked"
                                  [] valid /\ full -> "send_ingest"
                                  [] OTHER -> "recv"]]
           /\ ingest' = IF valid /\ ~full
                        THEN [ingest EXCEPT ![c] = Append(@, conn[c].frames + 1)]
                        ELSE ingest
           /\ \E now \in Clock :
                session_state' =
                    IF frame = "Ping"
                    THEN [session_state EXCEPT ![conn[c].session] = contacted(@, now)]
                    ELSE session_state
    /\ UNCHANGED sessions

\* task_receive (gateway.rs:445-449): the suspended sender.send(event).await
\* completes once the channel has room.
task_receive_send_resume(c) ==
    /\ conn[c].receive_task = "send_ingest"
    /\ Len(ingest[c]) < IngestCapacity
    /\ ingest' = [ingest EXCEPT ![c] = Append(@, conn[c].frames)]
    /\ conn' = [conn EXCEPT ![c].receive_task = "recv"]
    /\ UNCHANGED <<sessions, session_state>>

\* The consumer of a session's client events takes the next one.
session_worker_recv(c) ==
    /\ ingest[c] # <<>>
    /\ ingest' = [ingest EXCEPT ![c] = Tail(@)]
    /\ UNCHANGED <<conn, sessions, session_state>>

Request == \E c \in Connections, v \in Versions, e \in EncodingParams : ws_handler(c, v, e)
Handshake == \E c \in Connections : send_handshake_message(c)
Identify == \E c \in Connections, f \in Frames : receive_identity_message(c, f)
Authenticate == \E c \in Connections : authenticate(c)
CreateSession == \E c \in Connections : handle_socket_create_session(c)
Select == \E c \in Connections : handle_socket_select(c)
SendEvent ==
    \E c \in Connections, o \in {"sent", "encode_failed", "send_failed"} :
        task_send_event(c, o)
ReceiveFrame == \E c \in Connections, f \in Frames : task_receive_frame(c, f)
IngestResume == \E c \in Connections : task_receive_send_resume(c)
SessionWorker == \E c \in Connections : session_worker_recv(c)
Abort == \E c \in Connections : abort(c)

\* The steps the runtime takes by itself once they are enabled.
GatewayProgress ==
    Handshake \/ Authenticate \/ CreateSession \/ Select \/ IngestResume \/ Abort

(***************************************************************************)
(* The channel registry: Server::create_text_channel, Server::text_channels *)
(* (src/server/mod.rs) and TextChannel::new (src/server/channel/text/mod.rs). *)
(***************************************************************************)
DecimalDigits == <<"0", "1", "2", "3", "4", "5", "6", "7", "8", "9">>
IsDigit(ch) == \E d \in DOMAIN DecimalDigits : DecimalDigits[d] = ch
DigitValue(ch) == (CHOOSE d \in DOMAIN DecimalDigits : DecimalDigits[d] = ch) - 1

\* u64::to_string: the decimal digits of n, without leading zeros.
RECURSIVE u64_to_string(_)
u64_to_string(n) ==
    IF n < 10 THEN <<DecimalDigits[n + 1]>>
    ELSE u64_to_string(n \div 10) \o <<DecimalDigits[(n % 10) + 1]>>

\* The labels passed to create_text_channel.
Labels == {"", "general", "random"}

\* The step of TextChannel::new that fails, if any: db.keyspace,
\* create_dir_all, MmapDirectory::open, Index::open_or_create or
\* index.writer (the last two both map to SearchError).
NewFailures ==
    {"none", "KeyspaceError", "SearchIndexPathError", "SearchIndexDirectoryError",
     "SearchError"}

NoResult == [label |-> "", id |-> 0, outcome |-> "none"]

ServerInit ==
    /\ text_channels = [id \in {} |-> ""]
    /\ id_generator = 0
    /\ opened = {}
    /\ actors = {}
    /\ workers = <<>>
    /\ result = NoResult
    /\ listing = {}

\* id_generator.generate() (mod.rs:116): the next identifier.
generate(generated) == generated + 1

\* TextChannel::new (text/mod.rs:116-118): the name of the channel's keyspace.
keyspace_name(id) == u64_to_string(id)

\* A data directory that all channels share.
channel_data_dir_shared(id) == <<"channels">>

\* Server::create_text_channel (mod.rs:119): the channel's data directory
\* below config.data_dir, in which TextChannel::new opens the index at
\* `search` (text/mod.rs:124-131).
channel_data_dir(id) == <<"channels", u64_to_string(id)>>

\* A TextChannel::new without the label check.
TextChannel_new_unlabelled(label, failure) ==
    IF failure # "none" THEN failure ELSE "Ok"

\* TextChannel::new (text/mod.rs:103-163): what it returns.
TextChannel_new(label, failure) ==
    IF label = "" THEN "LabelRequired"
    ELSE IF failure # "none" THEN failure
    ELSE "Ok"

\* A create_text_channel that registers the channel before TextChannel::new
\* has returned.
create_text_channel_eager(label, failure) ==
    /\ id_generator < MaxChannels
    /\ LET id == generate(id_generator)
           outcome == TextChannel_new(label, failure)
       IN  /\ id_generator' = id
           /\ opened' = IF outcome \in {"LabelRequired", "KeyspaceError"}
                        THEN opened ELSE opened \cup {id}
           /\ actors' = IF outcome = "Ok" THEN actors \cup {id} ELSE actors
           /\ workers' = IF outcome = "Ok"
                         THEN Append(workers,
                                     [id |-> id, keyspace |-> keyspace_name(id),
                                      index |-> Append(channel_data_dir(id), "search")])
                         ELSE workers
           /\ text_channels' =
                 [i \in (DOMAIN text_channels) \cup {id} |->
                     IF i = id THEN label ELSE text_channels[i]]
           /\ result' = [label |-> label, id |-> id, outcome |-> outcome]
    /\ UNCHANGED listing

\* Server::create_text_channel (mod.rs:111-132): an identifier is generated,
\* TextChannel::new opens the keyspace and the index and spawns the worker,
\* and the channel is inserted in the table; `?` returns at the first
\* failure.
create_text_channel(label, failure) ==
    /\ id_generator < MaxChannels
    /\ LET id == generate(id_generator)
           outcome == TextChannel_new(label, failure)
       IN  /\ id_generator' = id
           /\ opened' = IF outcome \in {"LabelRequired", "KeyspaceError"}
                        THEN opened ELSE opened \cup {id}
           /\ actors' = IF outcome = "Ok" THEN actors \cup {id} ELSE actors
           /\ workers' = IF outcome = "Ok"
                         THEN Append(workers,
                                     [id |-> id, keyspace |-> keyspace_name(id),
                                      index |-> Append(channel_data_dir(id), "search")])
                         ELSE workers
           /\ text_channels' =
                 IF outcome = "Ok"
                 THEN [i \in (DOMAIN text_channels) \cup {id} |->
                          IF i = id THEN label ELSE text_channels[i]]
                 ELSE text_channels
           /\ result' = [label |-> label, id |-> id, outcome |-> outcome]
    /\ UNCHANGED listing

\* Server::text_channels (mod.rs:135-142): a snapshot of the table.
list_text_channels ==
    /\ listing' = {<<id, text_channels[id]>> : id \in DOMAIN text_channels}
    /\ UNCHANGED <<text_channels, id_generator, opened, actors, workers, result>>


(***************************************************************************)
(* The identifier generators and the session table under its lock:         *)
(* ClientService (src/server/client/mod.rs) as the connection handlers     *)
(* reach it through the RwLock that owns it (gateway.rs:161-168).          *)
(***************************************************************************)
\* The identity payloads of the clients.
Identities == {"alice", "bob"}

\* snowflaked::Generator::new(instance): the generator's components.
Generator_new(instance) == [instance |-> instance, timestamp |-> 0, sequence |-> 0]

\* Server::new (mod.rs:90) and ClientService::new (client/mod.rs:100).
ServerInstance == 0
ClientServiceInstance == 0

\* Snowflake::from_parts (channel.rs:21-23, client/mod.rs:23-25): the
\* timestamp above a 10 bit instance above a 12 bit sequence.
from_parts(timestamp, instance, sequence) ==
    timestamp * 2^22 + (instance % 2^10) * 2^12 + (sequence % 2^12)

\* Generator::generate at `now`: the sequence restarts when the timestamp
\* has advanced and counts up otherwise.  <<identifier, generator after>>.
Generator_generate(g, now) ==
    LET sequence == IF now > g.timestamp THEN 0 ELSE g.sequence
    IN  <<from_parts(now, g.instance, sequence),
          [g EXCEPT !.timestamp = now, !.sequence = (sequence + 1) % 2^12]>>

\* Session::new (client/mod.rs:64-71) with its identity.
Session_new(id, state, identity) ==
    [id |-> id, state |-> state, identity |-> identity, last_contact_s |-> 0]

\* The slot of an entry the table is in the middle of writing.
Vacant(id) == [id |-> id, state |-> "vacant", identity |-> "", last_contact_s |-> 0]

IdleHandler == [pc |-> "idle", op |-> "none", identity |-> "", id |-> 0, observed |-> {}]

RegistryInit ==
    /\ clock = 1
    /\ generators = [server |-> Generator_new(ServerInstance),
                     clients |-> Generator_new(ClientServiceInstance)]
    /\ channel_ids = {}
    /\ session_ids = <<>>
    /\ client_sessions = [id \in {} |-> Vacant(id)]
    /\ service_lock = [writer |-> 0, readers |-> {}]
    /\ handler = [h \in Handlers |-> IdleHandler]
    /\ live = {}

\* The entries of a table as a reader sees them.
Entries(table) == {table[id] : id \in DOMAIN table}

\* The system clock advances.
tick ==
    /\ clock < MaxClock
    /\ clock' = clock + 1
    /\ UNCHANGED <<generators, channel_ids, session_ids, client_sessions,
                   service_lock, handler, live>>

\* Server::create_text_channel (mod.rs:116): the channel's identifier.
create_text_channel_generate ==
    /\ Cardinality(channel_ids) < MaxChannels
    /\ LET g == Generator_generate(generators.server, clock)
       IN  /\ channel_ids' = channel_ids \cup {g[1]}
           /\ generators' = [generators EXCEPT !.server = g[2]]
    /\ UNCHANGED <<clock, session_ids, client_sessions, service_lock, handler, live>>

\* A write() that does not wait for the lock to be free.
service_write_unguarded(h, op, identity, id) ==
    /\ handler[h].pc = "idle"
    /\ op = "create" => Len(session_ids) + Cardinality({k \in Handlers : handler[k].pc \in {"locked", "generated", "inserting"} /\ handler[k].op = "create"}) < MaxSessions
    /\ op = "close" => identity = ""
    /\ op = "create" => id = 0
    /\ service_lock' = [service_lock EXCEPT !.writer = h]
    /\ handler' = [handler EXCEPT ![h] =
                      [@ EXCEPT !.pc = "locked", !.op = op, !.identity = identity, !.id = id,
                                !.observed = {}]]
    /\ UNCHANGED <<clock, generators, channel_ids, session_ids, client_sessions, live>>

\* .clients().write().unwrap() (gateway.rs:161-167): the handler waits for
\* the write lock of the service, which it holds for the whole call of
\* create_session(identity) or close_session(id).
service_write(h, op, identity, id) ==
    /\ handler[h].pc = "idle"
    /\ service_lock.writer = 0 /\ service_lock.readers = {}
    /\ op = "create" => Len(session_ids) < MaxSessions /\ id = 0
    /\ op = "close" => identity = ""
    /\ service_lock' = [service_lock EXCEPT !.writer = h]
    /\ handler' = [handler EXCEPT ![h] =
                      [@ EXCEPT !.pc = "locked", !.op = op, !.identity = identity, !.id = id,
                                !.observed = {}]]
    /\ UNCHANGED <<clock, generators, channel_ids, session_ids, client_sessions, live>>

\* A create_session that returns the session its identity already has.
create_session_generate_dedup(h) ==
    /\ handler[h].pc = "locked" /\ handler[h].op = "create"
    /\ LET g == Generator_generate(generators.clients, clock)
           same == {id \in DOMAIN client_sessions :
                       client_sessions[id].identity = handler[h].identity}
           id == IF same = {} THEN g[1] ELSE CHOOSE i \in same : TRUE
       IN  /\ generators' = [generators EXCEPT !.clients = g[2]]
           /\ handler' = [handler EXCEPT ![h] = [@ EXCEPT !.pc = "generated", !.id = id]]
    /\ UNCHANGED <<clock, channel_ids, session_ids, client_sessions, service_lock, live>>

\* ClientService::create_session (client/mod.rs:108): the session's
\* identifier.
create_session_generate(h) ==
    /\ handler[h].pc = "locked" /\ handler[h].op = "create"
    /\ LET g == Generator_generate(generators.clients, clock)
       IN  /\ generators' = [generators EXCEPT !.clients = g[2]]
           /\ handler' = [handler EXCEPT ![h] = [@ EXCEPT !.pc = "generated", !.id = g[1]]]
    /\ UNCHANGED <<clock, channel_ids, session_ids, client_sessions, service_lock, live>>

\* An insert that lets go of the service's lock before the entry is written.
create_session_insert_unlocked(h) ==
    /\ handler[h].pc = "generated"
    /\ LET id == handler[h].id
       IN  client_sessions' = [i \in (DOMAIN client_sessions) \cup {id} |->
                                  IF i = id THEN Vacant(id) ELSE client_sessions[i]]
    /\ handler' = [handler EXCEPT ![h] = [@ EXCEPT !.pc = "inserting"]]
    /\ service_lock' = [service_lock EXCEPT !.writer = 0]
    /\ UNCHANGED <<clock, generators, channel_ids, session_ids, live>>

\* ClientService::create_session (client/mod.rs:111-121): the insert into
\* the table takes the entry's slot ...
create_session_insert(h) ==
    /\ handler[h].pc = "generated"
    /\ LET id == handler[h].id
       IN  client_sessions' = [i \in (DOMAIN client_sessions) \cup {id} |->
                                  IF i = id THEN Vacant(id) ELSE client_sessions[i]]
    /\ handler' = [handler EXCEPT ![h] = [@ EXCEPT !.pc = "inserting"]]
    /\ UNCHANGED <<clock, generators, channel_ids, session_ids, service_lock, live>>

\* ... and then writes the session, Connected, into it.
create_session_insert_value(h) ==
    /\ handler[h].pc = "inserting"
    /\ LET id == handler[h].id
       IN  client_sessions' = [client_sessions EXCEPT ![id] =
                                  Session_new(id, "Connected", handler[h].identity)]
    /\ handler' = [handler EXCEPT ![h] = [@ EXCEPT !.pc = "returning"]]
    /\ UNCHANGED <<clock, generators, channel_ids, session_ids, service_lock, live>>

\* A close_session that keeps only the sessions created after the closed one.
close_session_retain(h) ==
    /\ handler[h].pc = "locked" /\ handler[h].op = "close"
    /\ LET id == handler[h].id
       IN  client_sessions' = [i \in {k \in DOMAIN client_sessions : k > id} |->
                                  client_sessions[i]]
    /\ handler' = [handler EXCEPT ![h] = [@ EXCEPT !.pc = "returning"]]
    /\ UNCHANGED <<clock, generators, channel_ids, session_ids, service_lock, live>>

\* ClientService::close_session (client/mod.rs:129-134): the entry is
\* removed, whether it is there or not.
close_session_remove(h) ==
    /\ handler[h].pc = "locked" /\ handler[h].op = "close"
    /\ LET id == handler[h].id
       IN  client_sessions' = [i \in (DOMAIN client_sessions) \ {id} |-> client_sessions[i]]
    /\ handler' = [handler EXCEPT ![h] = [@ EXCEPT !.pc = "returning"]]
    /\ UNCHANGED <<clock, generators, channel_ids, session_ids, service_lock, live>>

\* The call returns and the write guard is dropped at the end of the
\* statement (gateway.rs:168).
service_write_return(h) ==
    /\ handler[h].pc = "returning"
    /\ service_lock' = [service_lock EXCEPT !.writer = IF @ = h THEN 0 ELSE @]
    /\ session_ids' = IF handler[h].op = "create"
                      THEN Append(session_ids, handler[h].id) ELSE session_ids
    /\ live' = IF handler[h].op = "create"
               THEN live \cup {handler[h].id} ELSE live \ {handler[h].id}
    /\ handler' = [handler EXCEPT ![h] = [@ EXCEPT !.pc = "idle"]]
    /\ UNCHANGED <<clock, generators, channel_ids, client_sessions>>

\* A reader of the table takes the read lock of the service ...
service_read(h) ==
    /\ handler[h].pc = "idle"
    /\ service_lock.writer = 0
    /\ service_lock' = [service_lock EXCEPT !.readers = @ \cup {h}]
    /\ handler' = [handler EXCEPT ![h] = [@ EXCEPT !.pc = "reading", !.op = "read"]]
    /\ UNCHANGED <<clock, generators, channel_ids, session_ids, client_sessions, live>>

\* ... iterates over the table and drops the lock.
sessions_snapshot(h) ==
    /\ handler[h].pc = "reading"
    /\ handler' = [handler EXCEPT ![h] =
                      [@ EXCEPT !.pc = "idle", !.observed = Entries(client_sessions)]]
    /\ service_lock' = [service_lock EXCEPT !.readers = @ \ {h}]
    /\ UNCHANGED <<clock, generators, channel_ids, session_ids, client_sessions, live>>

(***************************************************************************)
(* The locks of the registries as the HTTP handlers take them: the shared   *)
(* application state (http/mod.rs:23), the services of the server           *)
(* (server/mod.rs:47), the tables inside them and a session's own lock.     *)
(* All are std::sync::RwLock; a guard is dropped at the end of the          *)
(* statement that created it, or of the block that binds it.                *)
(***************************************************************************)
\* What a handler does with the locks, in program order.
\*   handle_socket (gateway.rs:141-222): state.write() and auth().write()
\*     around validate_token; state.write(), clients().write() and, inside
\*     create_session, sessions.write() (client/mod.rs:117-120);
\*     session.read() for each of the two log lines; the select! over the
\*     two tasks; session.read() for the last log line.
\*   handle_list_channels (http/mod.rs:49-58): state.read() bound for the
\*     whole function, text_channels.read() inside Server::text_channels
\*     (server/mod.rs:135-142).
\*   handle_create_channel (http/mod.rs:61-75): state.read() bound for the
\*     whole function, text_channels.write() inside create_text_channel
\*     (server/mod.rs:126-129).
LockPlan(op) ==
    CASE op = "handle_socket" ->
            << <<"write", "state">>, <<"write", "auth">>, <<"drop", "auth">>, <<"drop", "state">>,
               <<"write", "state">>, <<"write", "clients">>, <<"write", "sessions">>,
               <<"drop", "sessions">>, <<"drop", "clients">>, <<"drop", "state">>,
               <<"read", "session">>, <<"drop", "session">>,
               <<"read", "session">>, <<"drop", "session">>,
               <<"await", "select">>,
               <<"read", "session">>, <<"drop", "session">> >>
      [] op = "handle_list_channels" ->
            << <<"read", "state">>, <<"read", "text_channels">>,
               <<"drop", "text_channels">>, <<"drop", "state">> >>
      [] op = "handle_create_channel" ->
            << <<"read", "state">>, <<"write", "text_channels">>,
               <<"drop", "text_channels">>, <<"drop", "state">> >>
      [] OTHER -> << >>

\* axum calls a handler for a request.
lock_start(h, op) ==
    /\ holder[h].op = "idle"
    /\ holder[h].done < MaxRequests
    /\ holder' = [holder EXCEPT ![h] = [@ EXCEPT !.op = op, !.at = 1]]
    /\ UNCHANGED rwlock

\* RwLock::read() / RwLock::write(): the thread blocks until no writer holds
\* the lock and, for write(), no reader either; the lock is not re-entrant.
lock_acquire(h) ==
    /\ holder[h].op # "idle"
    /\ LET step == LockPlan(holder[h].op)[holder[h].at]
           l == step[2]
       IN  /\ step[1] \in {"read", "write"}
           /\ rwlock[l].writer = 0
           /\ step[1] = "write" => rwlock[l].readers = {}
           /\ rwlock' = [rwlock EXCEPT ![l] =
                            IF step[1] = "write" THEN [@ EXCEPT !.writer = h]
                            ELSE [@ EXCEPT !.readers = @ \cup {h}]]
    /\ holder' = [holder EXCEPT ![h].at = @ + 1]

\* A handle_socket that binds the guard of the shared state to a variable,
\* which lives until the function returns.
lock_release_kept(h) ==
    /\ holder[h].op # "idle"
    /\ LET plan == LockPlan(holder[h].op)
           step == plan[holder[h].at]
           l == step[2]
       IN  /\ step[1] = "drop"
           /\ rwlock' = IF holder[h].op = "handle_socket" /\ l = "state" THEN rwlock
                        ELSE [rwlock EXCEPT ![l] =
                                [writer |-> IF @.writer = h THEN 0 ELSE @.writer,
                                 readers |-> @.readers \ {h}]]
           /\ holder' = [holder EXCEPT ![h] =
                            IF holder[h].at = Len(plan)
                            THEN [op |-> "idle", at |-> 0, done |-> @.done + 1]
                            ELSE [@ EXCEPT !.at = @ + 1]]

\* The guard is dropped; after the last one the handler returns.
lock_release(h) ==
    /\ holder[h].op # "idle"
    /\ LET plan == LockPlan(holder[h].op)
           step == plan[holder[h].at]
           l == step[2]
       IN  /\ step[1] = "drop"
           /\ rwlock' = [rwlock EXCEPT ![l] =
                            [writer |-> IF @.writer = h THEN 0 ELSE @.writer,
                             readers |-> @.readers \ {h}]]
           /\ holder' = [holder EXCEPT ![h] =
                            IF holder[h].at = Len(plan)
                            THEN [op |-> "idle", at |-> 0, done |-> @.done + 1]
                            ELSE [@ EXCEPT !.at = @ + 1]]

\* The handler is suspended in select! (gateway.rs:200-215) until one of the
\* connection's tasks ends.
lock_await(h) ==
    /\ holder[h].op # "idle"
    /\ LockPlan(holder[h].op)[holder[h].at][1] = "await"
    /\ holder' = [holder EXCEPT ![h].at = @ + 1]
    /\ UNCHANGED rwlock

(***************************************************************************)
(* The message content codec (src/message.rs).  A string is the sequence   *)
(* of its characters.                                                      *)
(***************************************************************************)
ROLE_BLOCK_PREFIX == <<"@", "&">>
USER_BLOCK_PREFIX == <<"@">>
CHANNEL_BLOCK_PREFIX == <<"#">>
TIMESTAMP_BLOCK_PREFIX == <<"t", ":">>

\* i64::to_string: a minus sign before the digits of a negative number.
i64_to_string(n) == IF n < 0 THEN <<"-">> \o u64_to_string(0 - n) ELSE u64_to_string(n)

\* The value of a non-empty string of digits.
RECURSIVE DigitsValue(_)
DigitsValue(digits) ==
    IF Len(digits) = 1 THEN DigitValue(digits[1])
    ELSE DigitsValue(SubSeq(digits, 1, Len(digits) - 1)) * 10 + DigitValue(Last(digits))

IsDigits(str) == Len(str) > 0 /\ \A i \in DOMAIN str : IsDigit(str[i])

ParseErr == [ok |-> FALSE, value |-> 0]
ParseOk(n) == [ok |-> TRUE, value |-> n]

\* u64::from_str (user.rs:45-51, role.rs, channel.rs:45-51): digits after an
\* optional `+`; a `-` is not a digit of an unsigned number.
u64_from_str(str) ==
    LET digits == IF Len(str) > 1 /\ str[1] = "+" THEN Tail(str) ELSE str
    IN  IF IsDigits(digits) THEN ParseOk(DigitsValue(digits)) ELSE ParseErr

\* i64::from_str (message.rs:102): digits after an optional `+` or `-`.
i64_from_str(str) ==
    LET signed == Len(str) > 1 /\ str[1] \in {"+", "-"}
        digits == IF signed THEN Tail(str) ELSE str
    IN  IF ~IsDigits(digits) THEN ParseErr
        ELSE IF signed /\ str[1] = "-" THEN ParseOk(0 - DigitsValue(digits))
        ELSE ParseOk(DigitsValue(digits))

starts_with(str, prefix) ==
    Len(str) >= Len(prefix) /\ SubSeq(str, 1, Len(prefix)) = prefix
ends_with(str, suffix) ==
    Len(str) >= Len(suffix) /\ SubSeq(str, Len(str) - Len(suffix) + 1, Len(str)) = suffix
\* str::strip_prefix and str::strip_suffix where they return Some.
strip_prefix(str, prefix) == SubSeq(str, Len(prefix) + 1, Len(str))
strip_suffix(str, suffix) == SubSeq(str, 1, Len(str) - Len(suffix))

\* format_role, format_user, format_channel, format_timestamp
\* (message.rs:10-28).
format_role(role_id) == <<"<">> \o ROLE_BLOCK_PREFIX \o u64_to_string(role_id) \o <<">">>
format_user(user_id) == <<"<">> \o USER_BLOCK_PREFIX \o u64_to_string(user_id) \o <<">">>
format_channel(channel_id) ==
    <<"<">> \o CHANNEL_BLOCK_PREFIX \o u64_to_string(channel_id) \o <<">">>
format_timestamp(unix_timestamp) ==
    <<"<">> \o TIMESTAMP_BLOCK_PREFIX \o i64_to_string(unix_timestamp) \o <<">">>

\* MessageBlock (message.rs:32-38).
MessageBlock(kind, value) == [kind |-> kind, value |-> value, text |-> <<>>]
Text(str) == [kind |-> "Text", value |-> 0, text |-> str]

\* A decode_message_part whose fallback keeps the part without its brackets.
decode_message_part_stripped(original_part) ==
    IF ~starts_with(original_part, <<"<">>) THEN Text(original_part)
    ELSE LET unopened == strip_prefix(original_part, <<"<">>)
         IN  IF ~ends_with(unopened, <<">">>) THEN Text(original_part)
             ELSE LET stripped_part == strip_suffix(unopened, <<">">>)
                      parsed(prefix, from_str, kind) ==
                          LET id == from_str
                          IN  IF id.ok THEN MessageBlock(kind, id.value)
                              ELSE Text(stripped_part)
                  IN  IF starts_with(stripped_part, ROLE_BLOCK_PREFIX)
                      THEN parsed(ROLE_BLOCK_PREFIX,
                                  u64_from_str(strip_prefix(stripped_part, ROLE_BLOCK_PREFIX)), "Role")
                      ELSE IF starts_with(stripped_part, USER_BLOCK_PREFIX)
                      THEN parsed(USER_BLOCK_PREFIX,
                                  u64_from_str(strip_prefix(stripped_part, USER_BLOCK_PREFIX)), "User")
                      ELSE IF starts_with(stripped_part, CHANNEL_BLOCK_PREFIX)
                      THEN parsed(CHANNEL_BLOCK_PREFIX,
                                  u64_from_str(strip_prefix(stripped_part, CHANNEL_BLOCK_PREFIX)), "User")
                      ELSE IF starts_with(stripped_part, TIMESTAMP_BLOCK_PREFIX)
                      THEN parsed(TIMESTAMP_BLOCK_PREFIX,
                                  i64_from_str(strip_prefix(stripped_part, TIMESTAMP_BLOCK_PREFIX)), "Timestamp")
                      ELSE Text(stripped_part)

\* decode_message_part (message.rs:65-110): the brackets are stripped, the
\* prefixes are tried in the order role, user, channel, timestamp, and the
\* rest is parsed; a channel mention is returned as MessageBlock::User
\* (message.rs:99).
decode_message_part(original_part) ==
    IF ~starts_with(original_part, <<"<">>) THEN Text(original_part)
    ELSE LET unopened == strip_prefix(original_part, <<"<">>)
         IN  IF ~ends_with(unopened, <<">">>) THEN Text(original_part)
             ELSE LET stripped_part == strip_suffix(unopened, <<">">>)
                      parsed(prefix, from_str, kind) ==
                          LET id == from_str
                          IN  IF id.ok THEN MessageBlock(kind, id.value)
                              ELSE Text(original_part)
                  IN  IF starts_with(stripped_part, ROLE_BLOCK_PREFIX)
                      THEN parsed(ROLE_BLOCK_PREFIX,
                                  u64_from_str(strip_prefix(stripped_part, ROLE_BLOCK_PREFIX)), "Role")
                      ELSE IF starts_with(stripped_part, USER_BLOCK_PREFIX)
                      THEN parsed(USER_BLOCK_PREFIX,
                                  u64_from_str(strip_prefix(stripped_part, USER_BLOCK_PREFIX)), "User")
                      ELSE IF starts_with(stripped_part, CHANNEL_BLOCK_PREFIX)
                      THEN parsed(CHANNEL_BLOCK_PREFIX,
                                  u64_from_str(strip_prefix(stripped_part, CHANNEL_BLOCK_PREFIX)), "User")
                      ELSE IF starts_with(stripped_part, TIMESTAMP_BLOCK_PREFIX)
                      THEN parsed(TIMESTAMP_BLOCK_PREFIX,
                                  i64_from_str(strip_prefix(stripped_part, TIMESTAMP_BLOCK_PREFIX)), "Timestamp")
                      ELSE Text(original_part)

\* The format_ function that matches a mention block.
format_block(b) ==
    CASE b.kind = "Role" -> format_role(b.value)
      [] b.kind = "User" -> format_user(b.value)
      [] b.kind = "Channel" -> format_channel(b.value)
      [] b.kind = "Timestamp" -> format_timestamp(b.value)
      [] OTHER -> b.text

\* The message parts decoded: an optional `<`, a prefix or none, a payload
\* of digits, signs and letters, an optional `>`.
Parts ==
    LET Openings == {<<>>, <<"<">>}
        Closings == {<<>>, <<">">>}
        Prefixes == {<<>>, ROLE_BLOCK_PREFIX, USER_BLOCK_PREFIX, CHANNEL_BLOCK_PREFIX,
                     TIMESTAMP_BLOCK_PREFIX, <<"&">>}
        PayloadChars == {"0", "7", "+", "-", "x"}
        Payloads == UNION {[1..n -> PayloadChars] : n \in 0..MaxPayload}
    IN  {o \o p \o d \o c : o \in Openings, p \in Prefixes, d \in Payloads, c \in Closings}

\* The identifiers and timestamps mentioned.
MentionKinds == {"Role", "User", "Channel", "Timestamp"}
MentionIds == {0, 7, 70}
MentionTimestamps == {0 - 7, 0, 7, 70}

NoOrigin == [kind |-> "none", value |-> 0]
\* No block yet: decode_message_part has not returned.
NoBlock == [kind |-> "none", value |-> 0, text |-> <<>>]

CodecInit ==
    /\ part = <<>>
    /\ block = NoBlock
    /\ origin = NoOrigin

\* decode_message (message.rs:113-120): split_whitespace yields a part of
\* the content, which is not empty.
split_whitespace(p) ==
    /\ part = <<>> /\ p # <<>>
    /\ part' = p
    /\ UNCHANGED <<block, origin>>

\* A mention is formatted into a part of the content (message.rs:10-28).
format_mention(kind, value) ==
    /\ part = <<>>
    /\ part' = format_block(MessageBlock(kind, value))
    /\ origin' = [kind |-> kind, value |-> value]
    /\ UNCHANGED block

\* decode_message (message.rs:118): the part is decoded.
decode_part ==
    /\ part # <<>> /\ block = NoBlock
    /\ block' = decode_message_part(part)
    /\ UNCHANGED <<part, origin>>

Init ==
    /\ ChannelInit /\ GatewayInit /\ ServerInit /\ RegistryInit /\ CodecInit
    /\ rwlock = [l \in {"state", "auth", "clients", "sessions", "text_channels", "session"} |->
                    [writer |-> 0, readers |-> {}]]
    /\ holder = [h \in Handlers |-> [op |-> "idle", at |-> 0, done |-> 0]]

\* The text channel with its producers and subscribers.
Next ==
    \/ SubmitCreated /\ UNCHANGED <<gateway_vars, server_vars, registry_vars, codec_vars, lock_vars>>
    \/ SubmitEdited /\ UNCHANGED <<gateway_vars, server_vars, registry_vars, codec_vars, lock_vars>>
    \/ SendResume /\ UNCHANGED <<gateway_vars, server_vars, registry_vars, codec_vars, lock_vars>>
    \/ SendClosed /\ UNCHANGED <<gateway_vars, server_vars, registry_vars, codec_vars, lock_vars>>
    \/ channel_worker_recv /\ UNCHANGED <<gateway_vars, server_vars, registry_vars, codec_vars, lock_vars>>
    \/ channel_worker_insert /\ UNCHANGED <<gateway_vars, server_vars, registry_vars, codec_vars, lock_vars>>
    \/ channel_worker_add_document /\ UNCHANGED <<gateway_vars, server_vars, registry_vars, codec_vars, lock_vars>>
    \/ channel_worker_send /\ UNCHANGED <<gateway_vars, server_vars, registry_vars, codec_vars, lock_vars>>
    \/ channel_worker_edited /\ UNCHANGED <<gateway_vars, server_vars, registry_vars, codec_vars, lock_vars>>
    \/ subscribe("s1") /\ UNCHANGED <<gateway_vars, server_vars, registry_vars, codec_vars, lock_vars>>
    \/ recv("s1") /\ UNCHANGED <<gateway_vars, server_vars, registry_vars, codec_vars, lock_vars>>

Spec == Init /\ [][Next]_vars

\* One producer of Created actions, the worker and two subscribers of the
\* channel's events.
NextBroadcast ==
    \/ (\E author \in Authors :
            send(1, MessageCreated(TextChannelMessage(author, submitted + 1, submitted + 1))))
          /\ UNCHANGED <<gateway_vars, server_vars, registry_vars, codec_vars, lock_vars>>
    \/ SendResume /\ UNCHANGED <<gateway_vars, server_vars, registry_vars, codec_vars, lock_vars>>
    \/ channel_worker_recv /\ UNCHANGED <<gateway_vars, server_vars, registry_vars, codec_vars, lock_vars>>
    \/ channel_worker_insert /\ UNCHANGED <<gateway_vars, server_vars, registry_vars, codec_vars, lock_vars>>
    \/ channel_worker_add_document /\ UNCHANGED <<gateway_vars, server_vars, registry_vars, codec_vars, lock_vars>>
    \/ channel_worker_send /\ UNCHANGED <<gateway_vars, server_vars, registry_vars, codec_vars, lock_vars>>
    \/ Subscribe /\ UNCHANGED <<gateway_vars, server_vars, registry_vars, codec_vars, lock_vars>>
    \/ Recv /\ UNCHANGED <<gateway_vars, server_vars, registry_vars, codec_vars, lock_vars>>

BroadcastSpec == Init /\ [][NextBroadcast]_vars

\* The gateway connections; tokio runs every task that is ready.
NextGateway ==
    \/ Request /\ UNCHANGED <<channel_vars, server_vars, registry_vars, codec_vars, lock_vars>>
    \/ Handshake /\ UNCHANGED <<channel_vars, server_vars, registry_vars, codec_vars, lock_vars>>
    \/ Identify /\ UNCHANGED <<channel_vars, server_vars, registry_vars, codec_vars, lock_vars>>
    \/ Authenticate /\ UNCHANGED <<channel_vars, server_vars, registry_vars, codec_vars, lock_vars>>
    \/ CreateSession /\ UNCHANGED <<channel_vars, server_vars, registry_vars, codec_vars, lock_vars>>
    \/ Select /\ UNCHANGED <<channel_vars, server_vars, registry_vars, codec_vars, lock_vars>>
    \/ SendEvent /\ UNCHANGED <<channel_vars, server_vars, registry_vars, codec_vars, lock_vars>>
    \/ ReceiveFrame /\ UNCHANGED <<channel_vars, server_vars, registry_vars, codec_vars, lock_vars>>
    \/ IngestResume /\ UNCHANGED <<channel_vars, server_vars, registry_vars, codec_vars, lock_vars>>
    \/ SessionWorker /\ UNCHANGED <<channel_vars, server_vars, registry_vars, codec_vars, lock_vars>>
    \/ Abort /\ UNCHANGED <<channel_vars, server_vars, registry_vars, codec_vars, lock_vars>>

GatewaySpec ==
    /\ Init
    /\ [][NextGateway]_vars
    /\ WF_vars(GatewayProgress /\ UNCHANGED <<channel_vars, server_vars, registry_vars, codec_vars, lock_vars>>)

\* The channel registry of the server.
NextServer ==
    \/ (\E label \in Labels, failure \in NewFailures : create_text_channel(label, failure))
          /\ UNCHANGED <<channel_vars, gateway_vars, registry_vars, codec_vars, lock_vars>>
    \/ list_text_channels /\ UNCHANGED <<channel_vars, gateway_vars, registry_vars, codec_vars, lock_vars>>

ServerSpec == Init /\ [][NextServer]_vars

\* The store of a channel whose one producer sends messages with timestamps
\* of every size.
NextStore ==
    \/ (\E p \in {1}, author \in Authors, ts \in KeyTimestamps :
            send(p, MessageCreated(TextChannelMessage(author, ts, submitted + 1))))
          /\ UNCHANGED <<gateway_vars, server_vars, registry_vars, codec_vars, lock_vars>>
    \/ SendResume /\ UNCHANGED <<gateway_vars, server_vars, registry_vars, codec_vars, lock_vars>>
    \/ channel_worker_recv /\ UNCHANGED <<gateway_vars, server_vars, registry_vars, codec_vars, lock_vars>>
    \/ channel_worker_insert /\ UNCHANGED <<gateway_vars, server_vars, registry_vars, codec_vars, lock_vars>>
    \/ channel_worker_add_document /\ UNCHANGED <<gateway_vars, server_vars, registry_vars, codec_vars, lock_vars>>
    \/ channel_worker_send /\ UNCHANGED <<gateway_vars, server_vars, registry_vars, codec_vars, lock_vars>>

StoreSpec == Init /\ [][NextStore]_vars

\* The two identifier generators, with the session registry's calls.
NextIdentifier ==
    \/ tick /\ UNCHANGED <<channel_vars, gateway_vars, server_vars, codec_vars, lock_vars>>
    \/ create_text_channel_generate /\ UNCHANGED <<channel_vars, gateway_vars, server_vars, codec_vars, lock_vars>>
    \/ (\E h \in Handlers, identity \in Identities : service_write(h, "create", identity, 0))
          /\ UNCHANGED <<channel_vars, gateway_vars, server_vars, codec_vars, lock_vars>>
    \/ (\E h \in Handlers, id \in live : service_write(h, "close", "", id))
          /\ UNCHANGED <<channel_vars, gateway_vars, server_vars, codec_vars, lock_vars>>
    \/ (\E h \in Handlers : create_session_generate(h)) /\ UNCHANGED <<channel_vars, gateway_vars, server_vars, codec_vars, lock_vars>>
    \/ (\E h \in Handlers : create_session_insert(h)) /\ UNCHANGED <<channel_vars, gateway_vars, server_vars, codec_vars, lock_vars>>
    \/ (\E h \in Handlers : create_session_insert_value(h)) /\ UNCHANGED <<channel_vars, gateway_vars, server_vars, codec_vars, lock_vars>>
    \/ (\E h \in Handlers : close_session_remove(h)) /\ UNCHANGED <<channel_vars, gateway_vars, server_vars, codec_vars, lock_vars>>
    \/ (\E h \in Handlers : service_write_return(h)) /\ UNCHANGED <<channel_vars, gateway_vars, server_vars, codec_vars, lock_vars>>

IdentifierSpec == Init /\ [][NextIdentifier]_vars

\* The session table used and read by concurrent handlers.
NextRegistry ==
    \/ (\E h \in Handlers, identity \in Identities : service_write(h, "create", identity, 0))
          /\ UNCHANGED <<channel_vars, gateway_vars, server_vars, codec_vars, lock_vars>>
    \/ (\E h \in Handlers, id \in {session_ids[i] : i \in DOMAIN session_ids} \cup {0} :
            service_write(h, "close", "", id))
          /\ UNCHANGED <<channel_vars, gateway_vars, server_vars, codec_vars, lock_vars>>
    \/ (\E h \in Handlers : create_session_generate(h)) /\ UNCHANGED <<channel_vars, gateway_vars, server_vars, codec_vars, lock_vars>>
    \/ (\E h \in Handlers : create_session_insert(h)) /\ UNCHANGED <<channel_vars, gateway_vars, server_vars, codec_vars, lock_vars>>
    \/ (\E h \in Handlers : create_session_insert_value(h)) /\ UNCHANGED <<channel_vars, gateway_vars, server_vars, codec_vars, lock_vars>>
    \/ (\E h \in Handlers : close_session_remove(h)) /\ UNCHANGED <<channel_vars, gateway_vars, server_vars, codec_vars, lock_vars>>
    \/ (\E h \in Handlers : service_write_return(h)) /\ UNCHANGED <<channel_vars, gateway_vars, server_vars, codec_vars, lock_vars>>
    \/ (\E h \in Handlers : service_read(h)) /\ UNCHANGED <<channel_vars, gateway_vars, server_vars, codec_vars, lock_vars>>
    \/ (\E h \in Handlers : sessions_snapshot(h)) /\ UNCHANGED <<channel_vars, gateway_vars, server_vars, codec_vars, lock_vars>>

RegistrySpec == Init /\ [][NextRegistry]_vars

\* The message content codec on every part and every mention.
NextCodec ==
    \/ (\E p \in Parts : split_whitespace(p)) /\ UNCHANGED <<channel_vars, gateway_vars, server_vars, registry_vars, lock_vars>>
    \/ (\E kind \in MentionKinds \ {"Timestamp"}, id \in MentionIds : format_mention(kind, id))
          /\ UNCHANGED <<channel_vars, gateway_vars, server_vars, registry_vars, lock_vars>>
    \/ (\E ts \in MentionTimestamps : format_mention("Timestamp", ts))
          /\ UNCHANGED <<channel_vars, gateway_vars, server_vars, registry_vars, lock_vars>>
    \/ decode_part /\ UNCHANGED <<channel_vars, gateway_vars, server_vars, registry_vars, lock_vars>>

CodecSpec == Init /\ [][NextCodec]_vars

\* The handlers of concurrent requests on the locks of the registries; a
\* thread that can take or drop a lock does so, a suspended handler may stay
\* suspended.
NextLock ==
    \/ (\E h \in Handlers, op \in {"handle_socket", "handle_list_channels", "handle_create_channel"} :
            lock_start(h, op))
          /\ UNCHANGED <<channel_vars, gateway_vars, server_vars, registry_vars, codec_vars>>
    \/ (\E h \in Handlers : lock_acquire(h))
          /\ UNCHANGED <<channel_vars, gateway_vars, server_vars, registry_vars, codec_vars>>
    \/ (\E h \in Handlers : lock_release(h))
          /\ UNCHANGED <<channel_vars, gateway_vars, server_vars, registry_vars, codec_vars>>
    \/ (\E h \in Handlers : lock_await(h))
          /\ UNCHANGED <<channel_vars, gateway_vars, server_vars, registry_vars, codec_vars>>

LockSpec ==
    /\ Init
    /\ [][NextLock]_vars
    /\ WF_vars((\E h \in Handlers : lock_acquire(h) \/ lock_release(h))
                  /\ UNCHANGED <<channel_vars, gateway_vars, server_vars, registry_vars, codec_vars>>)

(***************************************************************************)
(* The path of a message: a connection's client events are forwarded to    *)
(* the text channel, whose events come back through the session's          *)
(* subscription (spec.md, Control flow).                                   *)
(***************************************************************************)
\* The producer handle and the event receiver a connection's session holds.
ProducerOf(c) == c
SubscriberOf(c) == CHOOSE s \in Subscribers : TRUE

\* handle_socket creates the session, whose event subscription
\* (session.subscribe(), gateway.rs:319) is a receiver of the channel's
\* events.
session_subscribe(c) ==
    /\ handle_socket_create_session(c)
    /\ subscribe(SubscriberOf(c))
    /\ UNCHANGED <<server_vars, registry_vars, codec_vars, lock_vars>>

\* The consumer of the session's client events takes the next one and
\* forwards it as an action to the channel's queue; it takes no other event
\* while that send is suspended.
session_worker_forward(c, a) ==
    /\ ingest[c] # <<>>
    /\ ingest' = [ingest EXCEPT ![c] = Tail(@)]
    /\ send(ProducerOf(c), a)
    /\ conn' = [conn EXCEPT ![c].created =
                  IF a.kind = "MessageCreated" THEN @ \cup {Head(ingest[c])} ELSE @]
    /\ UNCHANGED <<sessions, session_state, server_vars, registry_vars, codec_vars, lock_vars>>

\* task_send (gateway.rs:321-362), one turn of its loop: sub.recv().await
\* yields the next event of the channel, which is encoded and sent, or an
\* error (the receiver lagged), on which the loop continues.
task_send_recv(c, outcome) ==
    /\ conn[c].send_task = "wait_event"
    /\ recv(SubscriberOf(c))
    /\ IF receivers[SubscriberOf(c)].next < Oldest
       THEN /\ outcome = "sent"
            /\ conn' = [conn EXCEPT ![c].recv_errors = IF @ < MaxSpins THEN @ + 1 ELSE @]
            /\ UNCHANGED <<sessions, session_state, ingest>>
       ELSE task_send_event(c, outcome)
    /\ UNCHANGED <<server_vars, registry_vars, codec_vars, lock_vars>>

\* task_send (gateway.rs:321-334) on a closed subscription: the worker has
\* stopped and dropped the only sender of the channel's events
\* (text/mod.rs:142-154) and every retained event was read, so sub.recv()
\* returns Err(Closed) at once; the error is logged and the loop continues
\* with the next recv().
task_send_recv_closed(c) ==
    /\ conn[c].send_task = "wait_event"
    /\ receivers[SubscriberOf(c)].subscribed
    /\ receivers[SubscriberOf(c)].next = Len(events)
    /\ ~ReceiverOpen
    /\ conn' = [conn EXCEPT ![c].recv_errors = IF @ < MaxSpins THEN @ + 1 ELSE @]
    /\ UNCHANGED <<sessions, session_state, ingest>>
    /\ UNCHANGED <<channel_vars, server_vars, registry_vars, codec_vars, lock_vars>>

SessionSubscribe == \E c \in Connections : session_subscribe(c)
SessionForward ==
    \E c \in Connections :
        \/ \E author \in Authors, ts \in Timestamps :
              session_worker_forward(c,
                  MessageCreated(TextChannelMessage(author, ts, Head(ingest[c]))))
        \/ session_worker_forward(c, MessageEdited)
SendRecv ==
    \E c \in Connections, o \in {"sent", "encode_failed", "send_failed"} :
        task_send_recv(c, o)

\* The steps the runtime takes by itself once they are enabled.
PipelineProgress ==
    \/ (Handshake \/ Authenticate \/ Select \/ IngestResume \/ Abort)
          /\ UNCHANGED <<channel_vars, server_vars, registry_vars, codec_vars, lock_vars>>
    \/ SessionSubscribe
    \/ SessionForward
    \/ SendRecv
    \/ (\E c \in Connections : task_send_recv_closed(c))
    \/ (SendResume \/ SendClosed \/ channel_worker_recv \/ channel_worker_insert
          \/ channel_worker_add_document \/ channel_worker_send \/ channel_worker_edited)
          /\ UNCHANGED <<gateway_vars, server_vars, registry_vars, codec_vars, lock_vars>>

NextPipeline ==
    \/ Request /\ UNCHANGED <<channel_vars, server_vars, registry_vars, codec_vars, lock_vars>>
    \/ Handshake /\ UNCHANGED <<channel_vars, server_vars, registry_vars, codec_vars, lock_vars>>
    \/ Identify /\ UNCHANGED <<channel_vars, server_vars, registry_vars, codec_vars, lock_vars>>
    \/ Authenticate /\ UNCHANGED <<channel_vars, server_vars, registry_vars, codec_vars, lock_vars>>
    \/ SessionSubscribe
    \/ Select /\ UNCHANGED <<channel_vars, server_vars, registry_vars, codec_vars, lock_vars>>
    \/ ReceiveFrame /\ UNCHANGED <<channel_vars, server_vars, registry_vars, codec_vars, lock_vars>>
    \/ IngestResume /\ UNCHANGED <<channel_vars, server_vars, registry_vars, codec_vars, lock_vars>>
    \/ Abort /\ UNCHANGED <<channel_vars, server_vars, registry_vars, codec_vars, lock_vars>>
    \/ SessionForward
    \/ SendRecv
    \/ (\E c \in Connections : task_send_recv_closed(c))
    \/ SendResume /\ UNCHANGED <<gateway_vars, server_vars, registry_vars, codec_vars, lock_vars>>
    \/ SendClosed /\ UNCHANGED <<gateway_vars, server_vars, registry_vars, codec_vars, lock_vars>>
    \/ channel_worker_recv /\ UNCHANGED <<gateway_vars, server_vars, registry_vars, codec_vars, lock_vars>>
    \/ channel_worker_insert /\ UNCHANGED <<gateway_vars, server_vars, registry_vars, codec_vars, lock_vars>>
    \/ channel_worker_add_document /\ UNCHANGED <<gateway_vars, server_vars, registry_vars, codec_vars, lock_vars>>
    \/ channel_worker_send /\ UNCHANGED <<gateway_vars, server_vars, registry_vars, codec_vars, lock_vars>>
    \/ channel_worker_edited /\ UNCHANGED <<gateway_vars, server_vars, registry_vars, codec_vars, lock_vars>>

PipelineSpec == Init /\ [][NextPipeline]_vars /\ WF_vars(PipelineProgress)

(***************************************************************************)
(* Properties of the text channel.                                         *)
(***************************************************************************)
IsPrefix(a, b) == Len(a) <= Len(b) /\ a = SubSeq(b, 1, Len(a))

IsCreated(h) == h.action.kind = "MessageCreated"

\* The NewMessage events of the Created actions, in the order the worker
\* received the actions.
ExpectedEvents ==
    LET created == SelectSeq(history, IsCreated)
    IN  [i \in 1..Len(created) |-> NewMessage(created[i].action.msg)]

\* The events a subscriber's receiver has yielded, in order.
EventsReceived(s) == [i \in 1..Len(receivers[s].got) |-> events[receivers[s].got[i]]]

\* Only Created actions have been submitted to the channel.
OnlyCreated ==
    /\ \A i \in 1..Len(history) : history[i].action.kind = "MessageCreated"
    /\ \A i \in 1..Len(message_queue) : message_queue[i].kind = "MessageCreated"
    /\ \A p \in Producers : pending_send[p].kind # "MessageEdited"

\* Every submitted action has been handled and the subscriber has read
\* every event.
Quiet(s) ==
    /\ message_queue = <<>>
    /\ \A p \in Producers : pending_send[p] = NoAction
    /\ worker_pc = "recv"
    /\ receivers[s].next = Len(events)

\* C1 as stated: a subscriber attached before any action is submitted
\* receives, for the Created actions A1..An submitted to the channel, exactly
\* n NewMessage events, one per action, in the order the worker received the
\* actions.
C1_SubscriberReceivesAll ==
    \A s \in Subscribers :
        (receivers[s].subscribed /\ receivers[s].early /\ OnlyCreated)
        => /\ IsPrefix(EventsReceived(s), ExpectedEvents)
           /\ Quiet(s) => Len(EventsReceived(s)) = submitted

\* C1 amended: the same, for a subscriber whose receiver never fell more
\* than the broadcast buffer behind (its recv never reported Lagged).
C1_SubscriberThatKeepsUpReceivesAll ==
    \A s \in Subscribers :
        (receivers[s].subscribed /\ receivers[s].early /\ OnlyCreated
            /\ ~receivers[s].lagged)
        => /\ IsPrefix(EventsReceived(s), ExpectedEvents)
           /\ Quiet(s) => Len(EventsReceived(s)) = submitted

\* An early subscriber that kept up has received every event of a full run
\* in which the worker received the actions of concurrent producers in
\* another order than they were handed to send().
C1_Witness ==
    \E s \in Subscribers :
        /\ receivers[s].subscribed /\ receivers[s].early /\ ~receivers[s].lagged
        /\ OnlyCreated /\ Quiet(s)
        /\ submitted = MaxActions
        /\ Len(EventsReceived(s)) = MaxActions
        /\ \E i \in 1..(Len(history) - 1) :
              history[i].action.msg.content > history[i + 1].action.msg.content

C3_EventOnlyAfterPersist ==
    \A i \in 1..Len(events) :
        \E j \in 1..Len(history) :
            /\ history[j].action.msg = events[i].msg
            /\ history[j].stored
            /\ history[j].indexed

\* C4 as stated: once a store insert or an index add has failed, the worker
\* is still running, whatever is enqueued afterwards.
C4_RunningAfterFailure == Failures(history) > 0 => worker_pc \notin Stopped

\* C5 as stated: when the worker has handled Created actions A1..An with no
\* store failure, the keyspace holds n entries and a scan in key order
\* returns them in the order the worker received the actions.
C5_KeyspaceInDequeueOrder ==
    (worker_pc = "recv" /\ OnlyCreated /\ \A i \in 1..Len(history) : history[i].stored)
    => /\ Cardinality(DOMAIN keyspace) = Len(history)
       /\ Scan(keyspace) = [i \in 1..Len(history) |-> history[i].action.msg.content]

\* C6 as stated: handling an Edited action does not stop the worker.
C6_EditedDoesNotStopWorker ==
    (\E i \in 1..Len(history) : history[i].action.kind = "MessageEdited")
    => worker_pc \notin Stopped

\* C7: a receiver returned by subscribe() yields no event that was broadcast
\* before the subscribe() call, and, as long as it has not lagged, yields
\* every event broadcast after it, in order and once.
C7_NoHistoryForLateSubscriber ==
    \A s \in Subscribers :
        receivers[s].subscribed
        => /\ \A i \in 1..Len(receivers[s].got) : receivers[s].got[i] > receivers[s].at
           /\ receivers[s].next <= Len(events)
           /\ ~receivers[s].lagged
                => receivers[s].got
                     = [i \in 1..(receivers[s].next - receivers[s].at) |-> receivers[s].at + i]

\* A subscriber that attached after an event was broadcast has received a
\* later event.
C7_Witness ==
    \E s \in Subscribers :
        /\ receivers[s].subscribed
        /\ receivers[s].at > 0
        /\ receivers[s].got # <<>>

\* C8 as stated: the action queue never holds more than its capacity, and an
\* action accepted by the queue is never lost: no accepted action is left in
\* the queue of a worker that has stopped receiving.
C8_AcceptedActionNeverLost ==
    /\ Len(message_queue) <= QueueCapacity
    /\ worker_pc \in Stopped => message_queue = <<>>

\* The queue discipline behind C8, which holds: the queue never holds more
\* than its capacity; a producer is suspended only on a full queue and its
\* action is enqueued only once there is room; an action in the queue leaves
\* it only by the worker receiving it.
C8_QueueBounded ==
    /\ [](Len(message_queue) <= QueueCapacity)
    /\ [][ /\ \A p \in Producers :
                (pending_send[p] = NoAction /\ pending_send'[p] # NoAction)
                => /\ Len(message_queue) = QueueCapacity
                   /\ message_queue' = message_queue
           /\ \A p \in Producers :
                (pending_send[p] # NoAction /\ pending_send'[p] # pending_send[p])
                => \/ /\ Len(message_queue) < QueueCapacity
                      /\ message_queue' = Append(message_queue, pending_send[p])
                   \/ ~ReceiverOpen
           /\ message_queue' # message_queue
                => \/ /\ Len(message_queue') = Len(message_queue) + 1
                      /\ SubSeq(message_queue', 1, Len(message_queue)) = message_queue
                   \/ /\ message_queue # <<>>
                      /\ message_queue' = Tail(message_queue)
                      /\ action' = Head(message_queue)
         ]_vars

\* The queue is full and a producer is suspended in send().
C8_Witness ==
    /\ Len(message_queue) = QueueCapacity
    /\ \E p \in Producers : pending_send[p] # NoAction

IdentifyRead(c) ==
    conn[c].pc = "identify" /\ conn'[c].frames = conn[c].frames + 1

\* A step in which the inbound pump of connection c reads one frame.
StreamingRead(c) ==
    conn[c].receive_task = "recv" /\ conn'[c].frames = conn[c].frames + 1

\* The step forwards a client event of connection c to the ingestion
\* channel, or suspends the pump in the send of it.
Forwarded(c) ==
    \/ ingest'[c] = Append(ingest[c], conn'[c].frames)
    \/ conn[c].receive_task = "recv" /\ conn'[c].receive_task = "send_ingest"

\* The connections that have a session.
WithSession == {c \in Connections : conn[c].session # NoSession}

C12_RejectedIffUnsupported ==
    \A c \in Connections :
        conn[c].pc # "request"
        => (conn[c].pc = "rejected"
              <=> conn[c].version \notin (SupportedVersions \cup {"absent"}))

\* The frames that yield no identify payload and no client event and are
\* not the end of the stream: malformed payloads and other frame types.
Malformed == {"TextWrongSchema", "TextInvalidJson", "BinaryInvalid"}
OtherFrameTypes == {"Pong", "Close"}

\* C13 as stated: while awaiting identify, a frame that yields no valid
\* identify payload is skipped: the connection stays in AwaitingIdentify.
C13_MalformedIdentifySkipped ==
    [][\A c \in Connections :
          (IdentifyRead(c) /\ conn'[c].last_frame \in Malformed \cup OtherFrameTypes \cup {"Ping"})
          => conn'[c].pc = "identify"]_vars

PumpExited(c) ==
    /\ conn[c].pc = "streaming"
    /\ conn[c].send_task \in Finished \/ conn[c].receive_task \in Finished

\* The handler of connection c has returned and both pumps have stopped.
ClosedAndStopped(c) ==
    /\ conn[c].pc = "closed"
    /\ conn[c].send_task \in Terminated
    /\ conn[c].receive_task \in Terminated

C20_EmptyLabelRejected ==
    /\ [][(id_generator' # id_generator /\ result'.label = "")
            => /\ result'.outcome = "LabelRequired"
               /\ text_channels' = text_channels
               /\ opened' = opened
               /\ actors' = actors]_vars
    /\ [](/\ \A id \in DOMAIN text_channels : text_channels[id] # ""
          /\ \A e \in listing : e[2] # ""
          /\ result.outcome = "LabelRequired"
                => /\ result.id \notin DOMAIN text_channels
                   /\ result.id \notin actors
                   /\ \A e \in listing : e[1] # result.id)

\* A call with an empty label failed after a channel had been created, and
\* the table was listed afterwards.
C20_Witness ==
    /\ result.outcome = "LabelRequired"
    /\ DOMAIN text_channels # {}
    /\ listing = {<<id, text_channels[id]>> : id \in DOMAIN text_channels}

(***************************************************************************)
(* Properties of the path of a message.                                    *)
(***************************************************************************)
\* The NewMessage event of client event k was yielded to the outbound pump
\* of connection c.
Written(c, k) ==
    LET got == receivers[SubscriberOf(c)].got
    IN  \E i \in 1..Len(got) : events[got[i]].msg.content = k

Snapshot == {<<id, text_channels[id]>> : id \in DOMAIN text_channels}

\* C21: every create_text_channel call that returns success adds exactly its
\* channel to the table, under an identifier that was not in the table, and
\* changes no other entry; a call that fails for any reason leaves the table
\* as it was; no step removes an entry; the table holds exactly the channels
\* whose actor was started, and a listing is a snapshot of a table that was.
C21_TableIsExactlyTheCreatedChannels ==
    /\ [][/\ id_generator' # id_generator =>
               IF result'.outcome = "Ok"
               THEN /\ result'.id \notin DOMAIN text_channels
                    /\ DOMAIN text_channels' = DOMAIN text_channels \cup {result'.id}
                    /\ text_channels'[result'.id] = result'.label
                    /\ \A id \in DOMAIN text_channels :
                          text_channels'[id] = text_channels[id]
               ELSE text_channels' = text_channels
           /\ \A id \in DOMAIN text_channels :
                 id \in DOMAIN text_channels' /\ text_channels'[id] = text_channels[id]
           /\ listing' # listing => listing' = Snapshot]_vars
    /\ [](/\ DOMAIN text_channels = actors
          /\ listing \subseteq Snapshot
          /\ result.outcome \notin {"Ok", "none"} => result.id \notin DOMAIN text_channels)

\* Two channels were created, a third call failed while opening the search
\* index, and the table was listed afterwards.
C21_Witness ==
    /\ Cardinality(DOMAIN text_channels) = 2
    /\ result.outcome = "SearchError"
    /\ listing = Snapshot
    /\ Cardinality(listing) = 2


(***************************************************************************)
(* Properties of the identifier generators and the session registry.       *)
(***************************************************************************)
\* A handler's call of op returns in this step.
Returns(h, op) ==
    /\ handler[h].pc = "returning" /\ handler[h].op = op
    /\ handler'[h].pc = "idle"

\* C22: the identifiers one generator returns, in the order the calls were
\* served, are pairwise distinct and non-decreasing.
C22_IdentifiersDistinctAndOrdered ==
    \A i, j \in DOMAIN session_ids :
        i < j => session_ids[i] # session_ids[j] /\ session_ids[i] <= session_ids[j]

\* Two create_session calls were served in the same millisecond, one by
\* each handler's connection, and the clock has advanced since.
C22_Witness ==
    /\ Len(session_ids) = 2
    /\ session_ids[1] \div 2^22 = session_ids[2] \div 2^22
    /\ clock = MaxClock
    /\ \A h \in Handlers : handler[h].op = "create" /\ handler[h].pc = "idle"

\* C23: the generator of the channel registry and the generator of the
\* session registry carry different instance ids, and no channel identifier
\* has the value of a session identifier.
C23_GeneratorsTaggedApart ==
    (channel_ids # {} /\ session_ids # <<>>)
        => /\ generators.server.instance # generators.clients.instance
           /\ \A i \in DOMAIN session_ids : session_ids[i] \notin channel_ids

\* C24: any two create_session calls return two distinct identifiers, also
\* for the same identity payload; the session a call returns is in the
\* table, Connected and with the call's identity, and the call leaves every
\* other session of the table as it was.
C24_TwoCallsTwoSessions ==
    /\ [][\A h \in Handlers : Returns(h, "create") =>
             LET id == handler[h].id
             IN  /\ \A i \in DOMAIN session_ids : session_ids[i] # id
                 /\ id \in DOMAIN client_sessions'
                 /\ client_sessions'[id] =
                       Session_new(id, "Connected", handler[h].identity)
                 /\ \A other \in live :
                       /\ other \in DOMAIN client_sessions'
                       /\ client_sessions'[other].state = "Connected"]_vars
    /\ [](service_lock.writer = 0 =>
            \A id \in live : /\ id \in DOMAIN client_sessions
                             /\ client_sessions[id].state = "Connected")

\* Two calls with the same identity payload have returned and both
\* sessions are in the table under different identifiers.
C24_Witness ==
    /\ Len(session_ids) = 2
    /\ session_ids[1] # session_ids[2]
    /\ live = {session_ids[1], session_ids[2]}
    /\ \A id \in live : id \in DOMAIN client_sessions
    /\ client_sessions[session_ids[1]].identity = client_sessions[session_ids[2]].identity
    /\ \A h \in Handlers : handler[h].op = "create" /\ handler[h].pc = "idle"

\* C25: what a reader of the session table observes is exactly the sessions
\* created and not closed by the calls that have returned, each whole; no
\* reader and no writer runs while a writer holds the table.
C25_TableNeverTorn ==
    /\ [][\A h \in Handlers :
             (handler[h].pc = "reading" /\ handler'[h].pc = "idle") =>
                /\ handler'[h].observed =
                      {e \in Entries(client_sessions) : e.id \in live}
                /\ {e.id : e \in handler'[h].observed} = live
                /\ \A e \in handler'[h].observed : e.state = "Connected"]_vars
    /\ [](/\ service_lock.writer # 0 => service_lock.readers = {}
          /\ Cardinality({h \in Handlers :
                 handler[h].pc \in {"locked", "generated", "inserting", "returning"}}) <= 1)

\* A reader observed the one session left after two had been created and
\* one of them closed.
C25_Witness ==
    \E h \in Handlers :
        /\ handler[h].op = "read" /\ handler[h].pc = "idle"
        /\ Cardinality(handler[h].observed) = 1
        /\ Len(session_ids) = 2
        /\ Cardinality(live) = 1


(***************************************************************************)
(* Properties of the message content codec.                                *)
(***************************************************************************)
\* C26: a mention formatted by format_role, format_user, format_channel or
\* format_timestamp decodes to the block of its own kind with its own
\* value.
C26_FormattedMentionDecodes ==
    (origin # NoOrigin /\ block # NoBlock)
        => block = MessageBlock(origin.kind, origin.value)

\* The part without its brackets, and the payload after its prefix, the
\* prefixes taken in the order role, user, channel, timestamp.
Inner(p) == SubSeq(p, 2, Len(p) - 1)
Bracketed(p) == Len(p) >= 2 /\ p[1] = "<" /\ p[Len(p)] = ">"
KnownPrefixes ==
    <<ROLE_BLOCK_PREFIX, USER_BLOCK_PREFIX, CHANNEL_BLOCK_PREFIX, TIMESTAMP_BLOCK_PREFIX>>
HasKnownPrefix(p) == \E k \in DOMAIN KnownPrefixes : starts_with(Inner(p), KnownPrefixes[k])
PrefixOf(p) ==
    KnownPrefixes[CHOOSE k \in DOMAIN KnownPrefixes :
        /\ starts_with(Inner(p), KnownPrefixes[k])
        /\ \A j \in 1..(k - 1) : ~starts_with(Inner(p), KnownPrefixes[j])]
PayloadOf(p) == SubSeq(Inner(p), Len(PrefixOf(p)) + 1, Len(Inner(p)))
\* A payload that is no number: empty, or with a character that is neither
\* a digit nor a leading sign.
NonNumeric(payload) ==
    \/ payload = <<>>
    \/ \E i \in DOMAIN payload :
          ~IsDigit(payload[i]) /\ ~(i = 1 /\ payload[i] \in {"+", "-"})
    \/ Len(payload) = 1 /\ payload[1] \in {"+", "-"}
NotAMention(p) ==
    \/ ~Bracketed(p)
    \/ ~HasKnownPrefix(p)
    \/ NonNumeric(PayloadOf(p))

\* C27: a part that is not a well-formed mention (no leading `<`, no
\* trailing `>`, no known prefix, an empty or non-numeric payload, also
\* after the role prefix) decodes to Text of the part unchanged, and every
\* part decodes to a block.
C27_MalformedPartIsText ==
    block # NoBlock =>
        /\ block.kind \in MentionKinds \cup {"Text"}
        /\ NotAMention(part) => block = Text(part)

\* A part with the role prefix and a payload that is no number was decoded
\* to Text.
C27_Witness ==
    /\ block = Text(part)
    /\ Bracketed(part)
    /\ starts_with(Inner(part), ROLE_BLOCK_PREFIX)
    /\ Len(PayloadOf(part)) = MaxPayload
    /\ NonNumeric(PayloadOf(part))

\* C28: a part that decodes to a mention block is given back unchanged by
\* the format_ function of that block, also when its payload has leading
\* zeros or a sign.
C28_MentionRoundTrip ==
    (block # NoBlock /\ block.kind \in MentionKinds) => format_block(block) = part


(***************************************************************************)
(* The event of a created message.                                         *)
(***************************************************************************)
\* The Created actions the worker has finished, in order.
Finished3 == SelectSeq(history, LAMBDA h : h.action.kind = "MessageCreated" /\ h.stage = 3)

\* C29: the k-th event broadcast is the NewMessage of the k-th Created
\* action the worker finished, and carries that action's message with the
\* same author, the same millisecond timestamp and the same content.
C29_EventCarriesSubmittedMessage ==
    /\ Len(events) = Len(Finished3)
    /\ \A k \in DOMAIN events :
          /\ events[k].kind = "NewMessage"
          /\ events[k].msg.author = Finished3[k].action.msg.author
          /\ events[k].msg.timestamp_ms = Finished3[k].action.msg.timestamp_ms
          /\ events[k].msg.content = Finished3[k].action.msg.content

\* Two messages with different timestamps were broadcast, and the store
\* write of one of them had failed.
C29_Witness ==
    /\ Len(events) = 2
    /\ events[1].msg.timestamp_ms # events[2].msg.timestamp_ms
    /\ events[1].msg.content # events[2].msg.content
    /\ \E k \in DOMAIN history : history[k].stage = 3 /\ ~history[k].stored


(***************************************************************************)
(* The handshake of a connection.                                          *)
(***************************************************************************)
\* A connection whose request was upgraded.
Upgraded(c) == conn[c].encoding # "none"

\* C30: an upgraded connection passes the handshake step once, before any
\* client frame is read: the step writes the one handshake payload and goes
\* on to identify, or its send fails and the connection ends there, no
\* frame read, no identify payload decoded and no session created; no other
\* step writes a handshake or returns to the handshake step.
C30_OneHandshakeBeforeAnyFrame ==
    /\ [][\A c \in Connections :
             /\ conn[c].pc # "handshake"
                   => /\ conn'[c].handshake_sent = conn[c].handshake_sent
                      /\ conn'[c].pc = "handshake" => conn[c].pc = "request"
             /\ (conn[c].pc = "handshake" /\ conn'[c] # conn[c])
                   => /\ conn[c].frames = 0 /\ conn'[c].frames = 0
                      /\ ~conn[c].handshake_sent
                      /\ conn'[c].pc = IF conn'[c].handshake_sent THEN "identify"
                                       ELSE "closed"]_vars
    /\ [](\A c \in Connections :
             /\ conn[c].frames > 0 => conn[c].handshake_sent
             /\ (Upgraded(c) /\ conn[c].pc # "handshake" /\ ~conn[c].handshake_sent)
                   => /\ conn[c].pc = "closed"
                      /\ conn[c].frames = 0
                      /\ conn[c].last_frame = "none"
                      /\ ~conn[c].identified
                      /\ conn[c].session = NoSession
                      /\ sessions = {})

\* The handshake of an upgraded connection could not be sent and the
\* connection has ended.
C30_Witness ==
    \E c \in Connections :
        /\ Upgraded(c)
        /\ conn[c].pc = "closed"
        /\ ~conn[c].handshake_sent
        /\ conn[c].frames = 0


C34_CloseRemovesOnlyThatEntry ==
    [][\A h \in Handlers :
          (/\ handler[h].pc = "locked" /\ handler[h].op = "close"
           /\ handler'[h].pc = "returning")
             => LET id == handler[h].id
                IN  /\ id \notin DOMAIN client_sessions'
                    /\ DOMAIN client_sessions' = (DOMAIN client_sessions) \ {id}
                    /\ \A i \in DOMAIN client_sessions' :
                          client_sessions'[i] = client_sessions[i]
                    /\ id \notin DOMAIN client_sessions
                          => client_sessions' = client_sessions]_vars

\* A session that was created and closed is closed a second time while
\* an older session is still in the table.
C34_Witness ==
    \E h \in Handlers :
        /\ handler[h].pc = "returning" /\ handler[h].op = "close"
        /\ \E i \in DOMAIN session_ids : session_ids[i] = handler[h].id
        /\ handler[h].id \notin live
        /\ \E i \in DOMAIN client_sessions :
              i < handler[h].id /\ client_sessions[i].state = "Connected"


\* C35: every registered channel has exactly one worker, spawned in a call
\* whose keyspace and index were opened; the keyspace name and the index
\* directory of a worker are those of its channel's identifier, and no two
\* workers share a keyspace or an index directory.
C35_OneActorPerChannel ==
    /\ [](/\ \A id \in DOMAIN text_channels :
                Cardinality({i \in DOMAIN workers : workers[i].id = id}) = 1
          /\ \A i \in DOMAIN workers :
                /\ workers[i].id \in opened
                /\ workers[i].keyspace = u64_to_string(workers[i].id)
                /\ workers[i].index = <<"channels", u64_to_string(workers[i].id), "search">>
          /\ \A i, j \in DOMAIN workers :
                i # j => /\ workers[i].id # workers[j].id
                         /\ workers[i].keyspace # workers[j].keyspace
                         /\ workers[i].index # workers[j].index)
    /\ [][workers' # workers
            => /\ result'.outcome = "Ok"
               /\ workers' = Append(workers, Last(workers'))
               /\ Last(workers').id = result'.id
               /\ result'.id \in opened']_vars

\* Two channels are registered, each with its own worker, and one more
\* call opened its keyspace and failed to open its index.
C35_Witness ==
    /\ Cardinality(DOMAIN text_channels) = 2
    /\ Len(workers) = 2
    /\ Cardinality(opened) = 3


\* C36 as stated: once the worker has stopped it takes no step again, no
\* action is enqueued, stored, indexed or broadcast, and no subscriber
\* receives an event from then on.
C36_NothingDeliveredAfterStop ==
    [][(worker_pc \in Stopped)
         => /\ worker_pc' = worker_pc /\ action' = action /\ history' = history
            /\ message_queue' = message_queue
            /\ keyspace' = keyspace /\ index' = index /\ events' = events
            /\ \A s \in Subscribers : (receivers'[s].got = receivers[s].got)]_vars

\* C36 amended: once the worker has stopped it takes no step again and no
\* action is enqueued, stored, indexed or broadcast; a subscriber still
\* receives, in order, the retained events that were broadcast before the
\* stop, and nothing else.
C36_StoppedActorNeverRuns ==
    [][(worker_pc \in Stopped)
         => /\ worker_pc' = worker_pc /\ action' = action /\ history' = history
            /\ message_queue' = message_queue
            /\ keyspace' = keyspace /\ index' = index /\ events' = events
            /\ \A s \in Subscribers :
                  /\ IsPrefix(receivers[s].got, receivers'[s].got)
                  /\ \A i \in DOMAIN receivers'[s].got :
                        receivers'[s].got[i] \in 1..Len(events)]_vars

\* The worker handled a Created action and panicked on an Edited one; a
\* third action was submitted and never reached the worker, and a
\* subscriber has received the one event.
C36_Witness ==
    /\ worker_pc = "panicked"
    /\ submitted = 3 /\ Len(history) = 2
    /\ message_queue = <<>> /\ \A p \in Producers : pending_send[p] = NoAction
    /\ Len(events) = 1
    /\ \E s \in Subscribers : receivers[s].got = <<1>>


\* C37: the document added to the index for a Created message has the
\* message's author, its body unchanged, and as timestamp the message's
\* millisecond timestamp divided by 1000, rounded down.
C37_DocumentOfMessage ==
    [][(Len(index') > Len(index))
         => /\ index' = Append(index, Last(index'))
            /\ Last(index').author = action.msg.author
            /\ Last(index').content = action.msg.content
            /\ Last(index').timestamp_secs = action.msg.timestamp_ms \div 1000]_vars


\* C38: the key of every stored message is eight bytes, the big-endian
\* digits of its timestamp in base 256, and the keys of two stored messages
\* are in lexicographic order exactly when their timestamps are in numeric
\* order, and equal exactly when the timestamps are equal.
C38_KeyOrderIsTimeOrder ==
    LET stored == {history[i].action.msg.timestamp_ms :
                      i \in {j \in DOMAIN history : history[j].stage >= 1 /\ history[j].stored}}
    IN  /\ \A k \in DOMAIN keyspace :
              /\ Len(k) = 8
              /\ \A i \in 1..8 : k[i] \in 0..255
              /\ k[1] = 0 /\ k[2] = 0 /\ k[3] = 0 /\ k[4] = 0
              /\ ((k[5] * 256 + k[6]) * 256 + k[7]) * 256 + k[8] \in stored
        /\ Cardinality(DOMAIN keyspace) = Cardinality(stored)
        /\ \A t1, t2 \in stored :
              /\ to_be_bytes(t1) \in DOMAIN keyspace
              /\ KeyLess(to_be_bytes(t1), to_be_bytes(t2)) <=> t1 < t2
              /\ to_be_bytes(t1) = to_be_bytes(t2) <=> t1 = t2

\* Three messages were stored, with timestamps 256, 255 and 2^31 - 1 in
\* that order of arrival.
C38_Witness ==
    /\ Len(history) = 3
    /\ \A i \in 1..3 : history[i].stage >= 1 /\ history[i].stored
    /\ history[1].action.msg.timestamp_ms = 256
    /\ history[2].action.msg.timestamp_ms = 255
    /\ history[3].action.msg.timestamp_ms = 2147483647
    /\ Cardinality(DOMAIN keyspace) = 3


\* C39: the worker's send of an event is possible whatever the subscribers
\* have read, and no step of the worker changes or waits for a receiver; a
\* receive changes only its own receiver, a subscriber with an unread event
\* can always receive, and one that is more than the buffer behind skips,
\* without taking an event, to the oldest event retained.
C39_BroadcastNeverBlocks ==
    /\ [](/\ worker_pc = "send" => ENABLED channel_worker_send
          /\ \A s \in Subscribers :
                (receivers[s].subscribed /\ receivers[s].next < Len(events))
                   => ENABLED recv(s))
    /\ [][(worker_pc' # worker_pc \/ events' # events) => receivers' = receivers]_vars
    /\ [][\A s \in Subscribers :
             (receivers[s].subscribed /\ receivers'[s] # receivers[s])
                => /\ events' = events /\ worker_pc' = worker_pc
                   /\ message_queue' = message_queue
                   /\ \A r \in Subscribers \ {s} : receivers'[r] = receivers[r]
                   /\ (Len(events) - receivers[s].next > BufferLen)
                         => /\ receivers'[s].next = Len(events) - BufferLen
                            /\ receivers'[s].lagged
                            /\ (receivers'[s].got = receivers[s].got)]_vars

\* The worker has broadcast three events although one subscriber had read
\* none of them: that subscriber lost the first event and received the two
\* retained ones, the other subscriber received all three.
C39_Witness ==
    /\ Len(events) = 3 /\ worker_pc = "recv"
    /\ receivers["s1"].lagged /\ receivers["s1"].got = <<2, 3>>
    /\ ~receivers["s2"].lagged /\ receivers["s2"].got = <<1, 2, 3>>


(***************************************************************************)
(* Properties of the registries' locks.                                    *)
(***************************************************************************)
\* The locks a handler holds.
Holds(h) == {l \in DOMAIN rwlock : rwlock[l].writer = h \/ h \in rwlock[l].readers}

\* The step a handler is at.
StepOf(h) ==
    IF holder[h].op = "idle" THEN <<"none", "none">>
    ELSE LockPlan(holder[h].op)[holder[h].at]

\* The nesting order: the application state, then a service, then a table,
\* then a session.
LockRank(l) ==
    CASE l = "state" -> 1
      [] l \in {"auth", "clients"} -> 2
      [] l \in {"sessions", "text_channels"} -> 3
      [] OTHER -> 4

\* C40: a handler takes a lock only while the locks it holds come before it
\* in the nesting order (so never a registry lock while it holds a session
\* lock, and never a lock it holds already), it holds no lock while it is
\* suspended or idle, and every handler that waits for a lock or holds one
\* gets to a point where it holds none and waits for none.
C40_RegistryLocksNeverDeadlock ==
    /\ [](\A h \in Handlers :
             /\ StepOf(h)[1] \in {"read", "write"}
                   => \A l \in Holds(h) : LockRank(l) < LockRank(StepOf(h)[2])
             /\ StepOf(h)[1] \in {"await", "none"} => Holds(h) = {})
    /\ \A h \in Handlers :
          (StepOf(h)[1] \in {"read", "write"} \/ Holds(h) # {})
             ~> (StepOf(h)[1] \in {"await", "none"} /\ Holds(h) = {})

\* A connection handler waits for the write lock of the application state
\* to create its session while a channel creation holds the read lock of
\* the state and the write lock of the channel table.
C40_Witness ==
    \E h, k \in Handlers :
        /\ holder[h].op = "handle_socket" /\ holder[h].at = 5
        /\ holder[k].op = "handle_create_channel"
        /\ k \in rwlock["state"].readers
        /\ rwlock["text_channels"].writer = k
        /\ holder[k].done = 1

====
